---- MODULE Spec2Model ----
(***************************************************************************)
(* A model of the termie terminal engine: the format tracker, the escape   *)
(* sequence parser, the screen buffers and the emulator's read loop.       *)
(*                                                                         *)
(* usize is modelled as a 16 bit word: usize_MAX stands for usize::MAX,    *)
(* the "extends forever" sentinel of a format tag.  Arithmetic on usize    *)
(* either panics (overflow-checks on, the debug profile) or wraps (the     *)
(* release profile); the profile is chosen once, in the initial state.     *)
(***************************************************************************)
EXTENDS Integers, Sequences, FiniteSets, TLC

VARIABLES
    color_info,       \* FormatTracker.color_info: the Vec<FormatTag>
    overflow_checks,  \* TRUE: arithmetic overflow panics; FALSE: it wraps
    panicked,         \* the thread has panicked: nothing runs any more
    parser,           \* AnsiParser.inner
    in_push,          \* AnsiParser::push is running its loop over `incoming`
    output,           \* push's local `output`: the ops of the current call
    data_output,      \* push's local `data_output`: the pending Data bytes
    fed,              \* history: every byte pushed since AnsiParser::new()
    emitted,          \* history: the ops every finished push has returned
    terminal_buffer,  \* TerminalEmulator.terminal_buffer.buf: the byte Vec
    cursor_state,     \* TerminalEmulator.cursor_state: pos, bold, color
    decckm_mode,      \* TerminalEmulator.decckm_mode
    sent,             \* the bytes the last write call handed to the pty fd
    steps,            \* history: the number of segments and key presses handled
    visible_buf,      \* TerminalBuffer2.visible_buf: the ring of rows
    scrollback,       \* TerminalBuffer2.scrollback
    buf2_cursor,      \* the cursor of the caller of TerminalBuffer2
    calls,            \* history: the number of TerminalBuffer2 calls made
    write_call,       \* TerminalEmulator::write: where it is, its local
                      \* to_write, and what the fd has accepted from it
    replay_control,   \* ReplayControl: recording, tracker, segment_lengths,
                      \* total_len, and the bytes in its channel
    replay_hist,      \* history: the next() calls made and what they did
    recorder,         \* Recorder.handle: the strong handles alive and the
                      \* RecordingHandleInner they share
    recording_dir,    \* the numbers of the recordings saved in recording_dir
    recorder_hist,    \* history: the calls made while a recording was active
    recorder_call,    \* the emulator thread inside Recorder::write or
                      \* Recorder::set_win_size: where it is and its locals
    flushed,          \* history: every run of Drop for RecordingHandleInner
    replay_gui        \* ReplayTermieGui: slider_pos, and the history of what
                      \* its TerminalEmulator has been given

ftVars == <<color_info>>
parserVars == <<parser, in_push, output, data_output, fed, emitted>>
emuVars == <<terminal_buffer, cursor_state, decckm_mode, sent>>
vars == <<color_info, overflow_checks, panicked,
          parser, in_push, output, data_output, fed, emitted,
          terminal_buffer, cursor_state, decckm_mode, sent, steps,
          visible_buf, scrollback, buf2_cursor, calls,
          write_call, replay_control, replay_hist,
          recorder, recording_dir, recorder_hist,
          recorder_call, flushed, replay_gui>>
buf2Vars == <<visible_buf, scrollback, buf2_cursor, calls>>
writeVars == <<write_call>>
replayVars == <<replay_control, replay_hist>>
recorderVars == <<recorder, recording_dir, recorder_hist>>
threadVars == <<recorder_call, flushed>>
guiVars == <<replay_gui>>
ioVars == <<write_call, replay_control, replay_hist,
            recorder, recording_dir, recorder_hist,
            recorder_call, flushed, replay_gui>>

----------------------------------------------------------------------------
(* usize arithmetic *)

usize_MAX == 65535

wrapping_add(a, b) == (a + b) % (usize_MAX + 1)
wrapping_sub(a, b) == IF a >= b THEN a - b ELSE a - b + usize_MAX + 1
add_overflows(a, b) == a + b > usize_MAX
sub_overflows(a, b) == a < b

----------------------------------------------------------------------------
(* Bounds of the format tracker model *)

\* linear indices offered to the tracker are 0..MaxPos and the sentinel
MaxPos == 3
\* the tracker is not driven past this many tags
MaxTags == 4
\* nor to a finite tag boundary beyond this index
MaxIndex == 5

TerminalColor ==
    {"Default", "Black", "Red", "Green", "Yellow", "Blue", "Magenta", "Cyan", "White"}

----------------------------------------------------------------------------
(* FormatTracker (src/terminal_emulator/mod.rs) *)

Range(s, e) == [start |-> s, end |-> e]
TagRange(t) == Range(t.start, t.end)
FormatTag(s, e, c, b) == [start |-> s, end |-> e, color |-> c, bold |-> b]

ranges_overlap(a, b) ==
    IF a.end <= b.start THEN FALSE
    ELSE IF a.start >= b.end THEN FALSE
    ELSE TRUE

range_fully_conatins(a, b) == a.start <= b.start /\ a.end >= b.end

range_starts_overlapping(a, b) == a.start > b.start /\ a.end > b.end

range_ends_overlapping(a, b) == range_starts_overlapping(b, a)

\* the elements of s whose index satisfies keep, in order
RECURSIVE SelectIdx(_, _, _)
SelectIdx(s, keep(_), i) ==
    IF i > Len(s) THEN <<>>
    ELSE (IF keep(i) THEN <<s[i]>> ELSE <<>>) \o SelectIdx(s, keep, i + 1)

\* the concatenation of f(i) for i = from..to
RECURSIVE ConcatIdx(_, _, _)
ConcatIdx(f(_), from, to) ==
    IF from > to THEN <<>> ELSE f(from) \o ConcatIdx(f, from + 1, to)

\* The adjustment of one existing tag for a pushed range: the tag as modified
\* in place, whether it is to be deleted, the tag to insert (a sequence of at
\* most one), and whether the "Unhandled case" panic is hit.
adjust_existing_format_range(existing_elem, range) ==
    LET existing_range == TagRange(existing_elem)
    IN  IF range_fully_conatins(range, existing_range) THEN
            [elem |-> existing_elem, should_delete |-> TRUE,
             to_insert |-> <<>>, panic |-> FALSE]
        ELSE IF range_fully_conatins(existing_range, range) THEN
            [elem |-> [existing_elem EXCEPT !.end = range.start],
             should_delete |-> (existing_elem.start = range.start),
             to_insert |->
                 IF range.end # existing_elem.end
                 THEN <<FormatTag(range.end, existing_elem.end,
                                  existing_elem.color, existing_elem.bold)>>
                 ELSE <<>>,
             panic |-> FALSE]
        ELSE IF range_starts_overlapping(range, existing_range) THEN
            [elem |-> [existing_elem EXCEPT !.end = range.start],
             should_delete |-> (existing_elem.start = range.start),
             to_insert |-> <<>>, panic |-> FALSE]
        ELSE IF range_ends_overlapping(range, existing_range) THEN
            [elem |-> [existing_elem EXCEPT !.start = range.end],
             should_delete |-> (range.end = existing_elem.end),
             to_insert |-> <<>>, panic |-> FALSE]
        ELSE
            [elem |-> existing_elem, should_delete |-> FALSE,
             to_insert |-> <<>>, panic |-> TRUE]

\* an adjustment that skips delete_items_from_vec
adjust_existing_format_ranges_undeleted(existing, range) ==
    LET effected(i) == ranges_overlap(TagRange(existing[i]), range)
        adj(i) == adjust_existing_format_range(existing[i], range)
        modified == [i \in 1..Len(existing) |->
                        IF effected(i) THEN adj(i).elem ELSE existing[i]]
        push(i) == IF effected(i) THEN adj(i).to_insert ELSE <<>>
    IN  [tags |-> modified \o ConcatIdx(push, 1, Len(existing)),
         panic |-> \E i \in 1..Len(existing) : effected(i) /\ adj(i).panic]

\* [tags, panic]: the tags after delete_items_from_vec and extend(to_push)
adjust_existing_format_ranges(existing, range) ==
    LET effected(i) == ranges_overlap(TagRange(existing[i]), range)
        adj(i) == adjust_existing_format_range(existing[i], range)
        modified == [i \in 1..Len(existing) |->
                        IF effected(i) THEN adj(i).elem ELSE existing[i]]
        keep(i) == ~(effected(i) /\ adj(i).should_delete)
        push(i) == IF effected(i) THEN adj(i).to_insert ELSE <<>>
    IN  [tags |-> SelectIdx(modified, keep, 1) \o ConcatIdx(push, 1, Len(existing)),
         panic |-> \E i \in 1..Len(existing) : effected(i) /\ adj(i).panic]

\* Vec::sort_by(|a, b| a.start.cmp(&b.start)): a stable sort
RECURSIVE sort_by_start(_)
sort_by_start(s) ==
    IF Len(s) <= 1 THEN s
    ELSE LET sorted == sort_by_start(SubSeq(s, 1, Len(s) - 1))
             x == s[Len(s)]
             k == Cardinality({i \in 1..Len(sorted) : sorted[i].start <= x.start})
         IN  SubSeq(sorted, 1, k) \o <<x>> \o SubSeq(sorted, k + 1, Len(sorted))

\* FormatTracker::new
FormatTracker_new == <<FormatTag(0, usize_MAX, "Default", FALSE)>>

\* FormatTracker::push_range: [tags, panic]
\* a push_range that leaves the existing tags as they are
push_range_unadjusted(tags, color, bold, range) ==
    [tags |-> sort_by_start(Append(tags, FormatTag(range.start, range.end,
                                                   color, bold))),
     panic |-> FALSE]

push_range(tags, color, bold, range) ==
    LET adjusted == adjust_existing_format_ranges(tags, range)
    IN  [tags |-> sort_by_start(
                      Append(adjusted.tags,
                             FormatTag(range.start, range.end, color, bold))),
         panic |-> adjusted.panic]

\* The effect of delete_range on one tag: the tag as modified, whether it is
\* deleted, whether a subtraction underflowed, whether "Unhandled overlap".
delete_range_elem(info, range) ==
    LET info_range == TagRange(info)
        del_size == wrapping_sub(range.end, range.start)
        same == [elem |-> info, del |-> FALSE, overflow |-> FALSE, panic |-> FALSE]
        shrunk_end == IF info.end # usize_MAX
                      THEN wrapping_sub(info.end, del_size) ELSE info.end
        end_overflow == info.end # usize_MAX /\ sub_overflows(info.end, del_size)
    IN  IF info.end <= range.start THEN same
        ELSE IF ranges_overlap(range, info_range) THEN
            IF range_fully_conatins(range, info_range) THEN
                [same EXCEPT !.del = TRUE]
            ELSE IF range_starts_overlapping(range, info_range) THEN
                [same EXCEPT !.elem.end =
                    IF info.end # usize_MAX THEN range.start ELSE info.end]
            ELSE IF range_ends_overlapping(range, info_range) THEN
                [same EXCEPT !.elem.start = range.start,
                             !.elem.end = shrunk_end,
                             !.overflow = end_overflow]
            ELSE IF range_fully_conatins(info_range, range) THEN
                [same EXCEPT !.elem.end = shrunk_end,
                             !.overflow = end_overflow]
            ELSE [same EXCEPT !.panic = TRUE]
        ELSE
            [same EXCEPT !.elem.start = wrapping_sub(info.start, del_size),
                         !.elem.end = shrunk_end,
                         !.overflow = sub_overflows(info.start, del_size)
                                      \/ end_overflow]

\* a delete_range that skips delete_items_from_vec
delete_range_undeleted(tags, range) ==
    LET r(i) == delete_range_elem(tags[i], range)
    IN  [tags |-> [i \in 1..Len(tags) |-> r(i).elem],
         overflow |-> sub_overflows(range.end, range.start)
                      \/ \E i \in 1..Len(tags) : r(i).overflow,
         panic |-> \E i \in 1..Len(tags) : r(i).panic]

\* FormatTracker::delete_range: [tags, overflow, panic]
delete_range(tags, range) ==
    LET r(i) == delete_range_elem(tags[i], range)
        modified == [i \in 1..Len(tags) |-> r(i).elem]
        keep(i) == ~r(i).del
    IN  [tags |-> SelectIdx(modified, keep, 1),
         overflow |-> sub_overflows(range.end, range.start)
                      \/ \E i \in 1..Len(tags) : r(i).overflow,
         panic |-> \E i \in 1..Len(tags) : r(i).panic]

\* The effect of push_range_adjustment on one tag
push_range_adjustment_elem(info, range) ==
    LET range_len == wrapping_sub(range.end, range.start)
        same == [elem |-> info, overflow |-> FALSE]
        grown_end == IF info.end # usize_MAX
                     THEN wrapping_add(info.end, range_len) ELSE info.end
        end_overflow == info.end # usize_MAX /\ add_overflows(info.end, range_len)
    IN  IF info.end <= range.start THEN same
        ELSE IF info.start > range.start THEN
            [elem |-> [info EXCEPT !.start = wrapping_add(info.start, range_len),
                                   !.end = grown_end],
             overflow |-> add_overflows(info.start, range_len) \/ end_overflow]
        ELSE
            [elem |-> [info EXCEPT !.end = grown_end], overflow |-> end_overflow]

\* FormatTracker::push_range_adjustment: [tags, overflow]
push_range_adjustment(tags, range) ==
    LET r(i) == push_range_adjustment_elem(tags[i], range)
    IN  [tags |-> [i \in 1..Len(tags) |-> r(i).elem],
         overflow |-> sub_overflows(range.end, range.start)
                      \/ \E i \in 1..Len(tags) : r(i).overflow]

\* FormatTracker::tags
tags == color_info

\* The colour and bold the tag list gives linear index p: those of the first
\* tag whose range holds p (the front-end paints the tags in order)
TagsAt(ts, p) == {i \in 1..Len(ts) : ts[i].start <= p /\ p < ts[i].end}
FormatAt(ts, p) ==
    IF TagsAt(ts, p) = {} THEN <<"none", FALSE>>
    ELSE LET i == CHOOSE j \in TagsAt(ts, p) : \A k \in TagsAt(ts, p) : j <= k
         IN  <<ts[i].color, ts[i].bold>>

\* split_format_data_for_scrollback: a tag as it enters the scrollback list
split_scrollback_tag(tag, scrollback_split) ==
    [tag EXCEPT !.end = IF tag.end <= scrollback_split THEN tag.end
                        ELSE scrollback_split]

\* a canvas tag that is left where it was
split_canvas_tag_untranslated(tag, scrollback_split) == tag

\* split_format_data_for_scrollback: a tag as it enters the visible list
split_canvas_tag(tag, scrollback_split) ==
    [tag EXCEPT !.start = IF tag.start >= scrollback_split
                          THEN tag.start - scrollback_split ELSE 0,
                !.end = IF tag.end # usize_MAX THEN tag.end - scrollback_split
                        ELSE tag.end]

\* split_format_data_for_scrollback: TerminalData {scrollback, visible}
split_format_data_for_scrollback(ts, scrollback_split) ==
    LET in_scrollback(tag) == tag.start < scrollback_split
        in_canvas(tag) == tag.end > scrollback_split
        scrollback_tags == SelectSeq(ts, in_scrollback)
        canvas_tags == SelectSeq(ts, in_canvas)
    IN  [scrollback |-> [i \in 1..Len(scrollback_tags) |->
                            split_scrollback_tag(scrollback_tags[i],
                                                 scrollback_split)],
         visible |-> [i \in 1..Len(canvas_tags) |->
                         split_canvas_tag(canvas_tags[i], scrollback_split)]]

----------------------------------------------------------------------------
(* ansi.rs: the escape sequence parser. Bytes are numbers 0..255 *)

i32_MAX == 2147483647

\* Option<T>: None is the empty sequence, Some(v) the one element sequence
None == <<>>
Some(v) == <<v>>
unwrap_or(o, d) == IF o = None THEN d ELSE o[1]

\* TerminalOutput: one record shape for every variant so that any two ops can
\* be compared. x, y are Options, data a byte string, kind the name of the
\* SelectGraphicRendition or Mode variant an op carries
Op(name, x, y, data, kind) ==
    [op |-> name, x |-> x, y |-> y, data |-> data, kind |-> kind]
Op0(name) == Op(name, None, None, <<>>, "")
OpData(d) == Op("Data", None, None, d, "")
OpN(name, n) == Op(name, Some(n), None, <<>>, "")

\* SelectGraphicRendition::from_usize
from_usize(val) ==
    CASE val = 0 -> Op("Sgr", None, None, <<>>, "Reset")
      [] val = 1 -> Op("Sgr", None, None, <<>>, "Bold")
      [] val = 30 -> Op("Sgr", None, None, <<>>, "ForegroundBlack")
      [] val = 31 -> Op("Sgr", None, None, <<>>, "ForegroundRed")
      [] val = 32 -> Op("Sgr", None, None, <<>>, "ForegroundGreen")
      [] val = 33 -> Op("Sgr", None, None, <<>>, "ForegroundYellow")
      [] val = 34 -> Op("Sgr", None, None, <<>>, "ForegroundBlue")
      [] val = 35 -> Op("Sgr", None, None, <<>>, "ForegroundMagenta")
      [] val = 36 -> Op("Sgr", None, None, <<>>, "ForegroundCyan")
      [] val = 37 -> Op("Sgr", None, None, <<>>, "ForegroundWhite")
      [] val = 90 -> Op("Sgr", None, None, <<>>, "ForegroundBrightBlack")
      [] val = 91 -> Op("Sgr", None, None, <<>>, "ForegroundBrightRed")
      [] val = 92 -> Op("Sgr", None, None, <<>>, "ForegroundBrightGreen")
      [] val = 93 -> Op("Sgr", None, None, <<>>, "ForegroundBrightYellow")
      [] val = 94 -> Op("Sgr", None, None, <<>>, "ForegroundBrightBlue")
      [] val = 95 -> Op("Sgr", None, None, <<>>, "ForegroundBrightMagenta")
      [] val = 96 -> Op("Sgr", None, None, <<>>, "ForegroundBrightCyan")
      [] val = 97 -> Op("Sgr", None, None, <<>>, "ForegroundBrightWhite")
      [] OTHER -> Op("Sgr", Some(val), None, <<>>, "Unknown")

is_csi_terminator(b) == 64 <= b /\ b <= 126
is_csi_param(b) == 48 <= b /\ b <= 63
is_csi_intermediate(b) == 32 <= b /\ b <= 47

\* slice::get(idx) on a Vec<Option<usize>>, flattened (idx counts from 0)
extract_param(idx, params) ==
    IF idx + 1 <= Len(params) THEN params[idx + 1] ELSE None

\* str::parse of an unsigned decimal: the value of a string of digits
IsDigits(s) == \A i \in 1..Len(s) : 48 <= s[i] /\ s[i] <= 57
RECURSIVE DecVal(_)
DecVal(s) ==
    IF s = <<>> THEN 0
    ELSE DecVal(SubSeq(s, 1, Len(s) - 1)) * 10 + (s[Len(s)] - 48)

\* parse_param_as::<T>: Ok(None) for no bytes, Ok(Some(v)) for digits that fit
\* T (max is T::MAX), Err otherwise. A parameter byte is never a sign.
parse_param_as(param_bytes, max) ==
    IF param_bytes = <<>> THEN [ok |-> TRUE, val |-> None]
    ELSE IF IsDigits(param_bytes) /\ Len(param_bytes) <= 10
                                  /\ DecVal(param_bytes) <= max
         THEN [ok |-> TRUE, val |-> Some(DecVal(param_bytes))]
         ELSE [ok |-> FALSE, val |-> None]

\* slice::split on b';': always at least one part
RECURSIVE split(_)
split(s) ==
    IF \A i \in 1..Len(s) : s[i] # 59 THEN <<s>>
    ELSE LET i == CHOOSE j \in 1..Len(s) :
                      s[j] = 59 /\ \A k \in 1..(j - 1) : s[k] # 59
         IN  <<SubSeq(s, 1, i - 1)>> \o split(SubSeq(s, i + 1, Len(s)))

split_params_into_semicolon_delimited_usize(params) ==
    LET parts == split(params)
        parsed == [i \in 1..Len(parts) |-> parse_param_as(parts[i], usize_MAX)]
    IN  [ok |-> \A i \in 1..Len(parts) : parsed[i].ok,
         val |-> [i \in 1..Len(parts) |-> parsed[i].val]]

\* push_data_if_non_empty: the output with the pending bytes appended as Data
push_data_if_non_empty(data, out) ==
    IF data # <<>> THEN Append(out, OpData(data)) ELSE out

\* mode_from_params, as the mode an op of the given name carries
mode_from_params(name, params) ==
    IF params = <<63, 49>> THEN Op(name, None, None, <<>>, "Decckm")
    ELSE Op(name, None, None, params, "Unknown")

\* CsiParser::new
CsiParser_new ==
    [state |-> "Params", fin |-> 0, params |-> <<>>, intermediates |-> <<>>]

\* a push that takes a parameter byte as a parameter in either open state
CsiParser_push_lenient(self, b) ==
    IF self.state \notin {"Params", "Intermediates"}
    THEN IF self.state = "Invalid" /\ is_csi_terminator(b)
         THEN [self EXCEPT !.state = "InvalidFinished"] ELSE self
    ELSE IF is_csi_param(b) THEN [self EXCEPT !.params = Append(@, b)]
    ELSE IF is_csi_intermediate(b)
         THEN [self EXCEPT !.intermediates = Append(@, b), !.state = "Intermediates"]
    ELSE IF is_csi_terminator(b) THEN [self EXCEPT !.state = "Finished", !.fin = b]
    ELSE [self EXCEPT !.state = "Invalid"]

\* CsiParser::push: pushing to a finished parser panics
CsiParser_push_panics(self) == self.state \in {"Finished", "InvalidFinished"}
CsiParser_push(self, b) ==
    CASE self.state = "Params" ->
            IF is_csi_param(b) THEN [self EXCEPT !.params = Append(@, b)]
            ELSE IF is_csi_intermediate(b)
                 THEN [self EXCEPT !.intermediates = Append(@, b),
                                   !.state = "Intermediates"]
            ELSE IF is_csi_terminator(b)
                 THEN [self EXCEPT !.state = "Finished", !.fin = b]
            ELSE [self EXCEPT !.state = "Invalid"]
      [] self.state = "Intermediates" ->
            IF is_csi_param(b) THEN [self EXCEPT !.state = "Invalid"]
            ELSE IF is_csi_intermediate(b)
                 THEN [self EXCEPT !.intermediates = Append(@, b)]
            ELSE IF is_csi_terminator(b)
                 THEN [self EXCEPT !.state = "Finished", !.fin = b]
            ELSE [self EXCEPT !.state = "Invalid"]
      [] self.state = "Invalid" ->
            IF is_csi_terminator(b) THEN [self EXCEPT !.state = "InvalidFinished"]
            ELSE self
      [] OTHER -> self


\* The ops the Csi arm of AnsiParser::push pushes for the state the CsiParser
\* is in after a byte: one arm per final byte, then the catch-all Finished arm
\* and the Invalid arm; none while the sequence is still open
CsiOutput(p) ==
    LET invalid == <<Op0("Invalid")>>
        as_i32 == parse_param_as(p.params, i32_MAX)
        as_usize == parse_param_as(p.params, usize_MAX)
        list == split_params_into_semicolon_delimited_usize(p.params)
        sgr_params == IF Len(list.val) = 1 /\ list.val[1] = None
                      THEN <<Some(0)>> ELSE list.val
        sgr_some == SelectSeq(sgr_params, LAMBDA o : o # None)
    IN  CASE p.state = "Finished" /\ p.fin = 65 ->
                IF ~as_i32.ok THEN invalid
                ELSE <<Op("SetCursorPosRel", None,
                          Some(0 - unwrap_or(as_i32.val, 1)), <<>>, "")>>
          [] p.state = "Finished" /\ p.fin = 66 ->
                IF ~as_i32.ok THEN invalid
                ELSE <<Op("SetCursorPosRel", None,
                          Some(unwrap_or(as_i32.val, 1)), <<>>, "")>>
          [] p.state = "Finished" /\ p.fin = 67 ->
                IF ~as_i32.ok THEN invalid
                ELSE <<Op("SetCursorPosRel",
                          Some(unwrap_or(as_i32.val, 1)), None, <<>>, "")>>
          [] p.state = "Finished" /\ p.fin = 68 ->
                IF ~as_i32.ok THEN invalid
                ELSE <<Op("SetCursorPosRel",
                          Some(0 - unwrap_or(as_i32.val, 1)), None, <<>>, "")>>
          [] p.state = "Finished" /\ p.fin = 72 ->
                IF ~list.ok THEN invalid
                ELSE <<Op("SetCursorPos",
                          Some(unwrap_or(extract_param(1, list.val), 1)),
                          Some(unwrap_or(extract_param(0, list.val), 1)),
                          <<>>, "")>>
          [] p.state = "Finished" /\ p.fin = 71 ->
                IF ~as_usize.ok THEN invalid
                ELSE <<Op("SetCursorPos", Some(unwrap_or(as_usize.val, 1)),
                          None, <<>>, "")>>
          [] p.state = "Finished" /\ p.fin = 74 ->
                IF ~as_usize.ok THEN invalid
                ELSE IF unwrap_or(as_usize.val, 0) = 0 THEN <<Op0("ClearForwards")>>
                ELSE IF unwrap_or(as_usize.val, 0) \in {2, 3} THEN <<Op0("ClearAll")>>
                ELSE invalid
          [] p.state = "Finished" /\ p.fin = 75 ->
                IF ~as_usize.ok THEN invalid
                ELSE IF unwrap_or(as_usize.val, 0) = 0
                     THEN <<Op0("ClearLineForwards")>>
                ELSE invalid
          [] p.state = "Finished" /\ p.fin = 76 ->
                IF ~as_usize.ok THEN invalid
                ELSE <<OpN("InsertLines", unwrap_or(as_usize.val, 1))>>
          [] p.state = "Finished" /\ p.fin = 80 ->
                IF ~as_usize.ok THEN invalid
                ELSE <<OpN("Delete", unwrap_or(as_usize.val, 1))>>
          [] p.state = "Finished" /\ p.fin = 109 ->
                IF ~list.ok THEN invalid
                ELSE [i \in 1..Len(sgr_some) |-> from_usize(sgr_some[i][1])]
          [] p.state = "Finished" /\ p.fin = 104 ->
                <<mode_from_params("SetMode", p.params)>>
          [] p.state = "Finished" /\ p.fin = 108 ->
                <<mode_from_params("ResetMode", p.params)>>
          [] p.state = "Finished" /\ p.fin = 64 ->
                IF ~as_usize.ok THEN invalid
                ELSE <<OpN("InsertSpaces", unwrap_or(as_usize.val, 1))>>
          [] p.state = "Finished" -> invalid
          [] p.state = "Invalid" -> invalid
          [] OTHER -> <<>>

\* a Csi arm that leaves an Invalid parser in place
CsiResets_InvalidKept(p) == p.state = "Finished"

\* whether that arm sets self.inner back to Empty
CsiResets(p) == p.state \in {"Finished", "Invalid"}

\* AnsiParserInner
Inner(tag, csi) == [tag |-> tag, csi |-> csi]
InnerEmpty == Inner("Empty", CsiParser_new)
InnerEscape == Inner("Escape", CsiParser_new)

\* AnsiParser::new
AnsiParser_new == InnerEmpty

\* The body of the loop of AnsiParser::push for one byte b: l holds self.inner
\* and the locals output and data_output; panic is set when the byte makes
\* CsiParser::push panic
push_byte(l, b) ==
    CASE l.inner.tag = "Empty" ->
            IF b = 27 THEN [l EXCEPT !.inner = InnerEscape]
            ELSE IF b = 13
                 THEN [l EXCEPT !.output = Append(
                           push_data_if_non_empty(l.data_output, l.output),
                           Op0("CarriageReturn")),
                                !.data_output = <<>>]
            ELSE IF b = 10
                 THEN [l EXCEPT !.output = Append(
                           push_data_if_non_empty(l.data_output, l.output),
                           Op0("Newline")),
                                !.data_output = <<>>]
            ELSE IF b = 8
                 THEN [l EXCEPT !.output = Append(
                           push_data_if_non_empty(l.data_output, l.output),
                           Op0("Backspace")),
                                !.data_output = <<>>]
            ELSE [l EXCEPT !.data_output = Append(@, b)]
      [] l.inner.tag = "Escape" ->
            [l EXCEPT !.output = push_data_if_non_empty(l.data_output, l.output),
                      !.data_output = <<>>,
                      !.inner = IF b = 91 THEN Inner("Csi", CsiParser_new)
                                ELSE InnerEmpty]
      [] OTHER ->
            IF CsiParser_push_panics(l.inner.csi) THEN [l EXCEPT !.panic = TRUE]
            ELSE LET p == CsiParser_push(l.inner.csi, b)
                 IN  [l EXCEPT !.output = l.output \o CsiOutput(p),
                               !.inner = IF CsiResets(p) THEN InnerEmpty
                                         ELSE Inner("Csi", p)]

\* AnsiParser::push as one call: the loop over incoming, then the final flush
RECURSIVE push_loop(_, _)
push_loop(l, incoming) ==
    IF incoming = <<>> \/ l.panic THEN l
    ELSE push_loop(push_byte(l, Head(incoming)), Tail(incoming))

AnsiParser_push(inner, incoming) ==
    LET l == push_loop([inner |-> inner, output |-> <<>>,
                        data_output |-> <<>>, panic |-> FALSE], incoming)
    IN  [inner |-> l.inner, panic |-> l.panic,
         output |-> push_data_if_non_empty(l.data_output, l.output)]

\* a list of ops with every run of adjacent Data ops made one Data op
RECURSIVE ConcatData(_)
ConcatData(ops) ==
    IF Len(ops) <= 1 THEN ops
    ELSE LET rest == ConcatData(Tail(ops))
         IN  IF Head(ops).op = "Data" /\ Head(rest).op = "Data"
             THEN <<OpData(Head(ops).data \o Head(rest).data)>> \o Tail(rest)
             ELSE <<Head(ops)>> \o rest

----------------------------------------------------------------------------
(* mod.rs: the terminal buffer (one byte Vec holding scrollback and the   *)
(* visible lines) and the helpers that map cursor positions to it.         *)
(* Positions and ranges count from 0 as in the code.                       *)

CursorPos(x, y) == [x |-> x, y |-> y]

Min(S) == CHOOSE m \in S : \A n \in S : m <= n

RECURSIVE calc_line_ranges_loop(_, _, _, _, _, _)
calc_line_ranges_loop(buf, width, i, ret, bytes_since_newline, current_start) ==
    IF i >= Len(buf)
    THEN IF Len(buf) > current_start
         THEN Append(ret, Range(current_start, Len(buf))) ELSE ret
    ELSE IF buf[i + 1] = 10
    THEN calc_line_ranges_loop(buf, width, i + 1,
                               Append(ret, Range(current_start, i)), 0, i + 1)
    ELSE IF bytes_since_newline = width
    THEN calc_line_ranges_loop(buf, width, i + 1,
                               Append(ret, Range(current_start, i)), 0, i)
    ELSE calc_line_ranges_loop(buf, width, i + 1, ret,
                               bytes_since_newline + 1, current_start)

calc_line_ranges(buf, width) == calc_line_ranges_loop(buf, width, 0, <<>>, 0, 0)

line_ranges_to_visible_line_ranges(line_ranges, height) ==
    LET first_visible_line ==
            IF Len(line_ranges) > height THEN Len(line_ranges) - height ELSE 0
    IN  SubSeq(line_ranges, first_visible_line + 1, Len(line_ranges))

\* the visible line ranges of buf
visible_line_ranges(buf, width, height) ==
    line_ranges_to_visible_line_ranges(calc_line_ranges(buf, width), height)

\* [pos, panic, overflow]: the unwrap panics when no visible line ends at or
\* after buf_pos
find_cursor_line(vis, buf_pos, found) ==
    IF found = {}
    THEN [pos |-> CursorPos(0, 0), panic |-> TRUE, overflow |-> FALSE]
    ELSE [pos |-> CursorPos(wrapping_sub(buf_pos, vis[Min(found)].start),
                            Min(found) - 1),
          panic |-> FALSE,
          overflow |-> sub_overflows(buf_pos, vis[Min(found)].start)]

new_cursor_line(vis, buf_pos) ==
    find_cursor_line(vis, buf_pos, {i \in 1..Len(vis) : vis[i].end >= buf_pos})

buf_to_cursor_pos(buf, width, height, buf_pos) ==
    new_cursor_line(visible_line_ranges(buf, width, height), buf_pos)

unwrapped_line_end_pos(buf, start_pos) ==
    LET nl == {i \in start_pos..(Len(buf) - 1) : buf[i + 1] = 10}
    IN  IF nl = {} THEN Len(buf) ELSE Min(nl)

\* The arithmetic of pad_buffer_for_write on the line the cursor is on:
\* pushed newlines for missing lines, line_start the start of the cursor's
\* line, actual_end the end of that line unwrapped
pad_plan_line(buf, cursor_pos, write_len, lines, pushed, line_start, actual_end) ==
    IF cursor_pos.y + 1 > lines + pushed
    THEN [pushed |-> 0, desired_start |-> 0, actual_end |-> 0,
          number_of_spaces |-> 0, size |-> Len(buf),
          panic |-> TRUE, overflow |-> add_overflows(cursor_pos.y, 1)]
    ELSE LET desired_start == wrapping_add(line_start, cursor_pos.x)
             desired_end == wrapping_add(desired_start, write_len)
             number_of_spaces == IF desired_end > actual_end
                                 THEN desired_end - actual_end ELSE 0
         IN  [pushed |-> pushed, desired_start |-> desired_start,
              actual_end |-> actual_end, number_of_spaces |-> number_of_spaces,
              size |-> Len(buf) + pushed + number_of_spaces,
              panic |-> FALSE,
              overflow |-> \/ add_overflows(cursor_pos.y, 1)
                           \/ add_overflows(line_start, cursor_pos.x)
                           \/ add_overflows(desired_start, write_len)]

pad_plan_lines(buf, cursor_pos, write_len, vis) ==
    IF cursor_pos.y + 1 <= Len(vis)
    THEN pad_plan_line(buf, cursor_pos, write_len, Len(vis), 0,
                       vis[cursor_pos.y + 1].start,
                       unwrapped_line_end_pos(buf, vis[cursor_pos.y + 1].start))
    ELSE pad_plan_line(buf, cursor_pos, write_len, Len(vis),
                       IF wrapping_add(cursor_pos.y, 1) > Len(vis)
                       THEN wrapping_add(cursor_pos.y, 1) - Len(vis) ELSE 0,
                       Len(buf) + (cursor_pos.y + 1 - Len(vis)) - 1,
                       Len(buf) + (cursor_pos.y + 1 - Len(vis)) - 1)

pad_plan(buf, width, height, cursor_pos, write_len) ==
    pad_plan_lines(buf, cursor_pos, write_len,
                   visible_line_ranges(buf, width, height))

\* the buffer with the newlines pushed and the spaces inserted
pad_apply(buf, plan) ==
    SubSeq(buf \o [k \in 1..plan.pushed |-> 10], 1, plan.actual_end)
    \o [k \in 1..plan.number_of_spaces |-> 32]
    \o SubSeq(buf \o [k \in 1..plan.pushed |-> 10], plan.actual_end + 1,
              Len(buf) + plan.pushed)

\* pad_buffer_for_write: the padded buf (desired_start is in the plan)
pad_buffer_for_write(buf, width, height, cursor_pos, write_len) ==
    pad_apply(buf, pad_plan(buf, width, height, cursor_pos, write_len))

\* [some, pos, range, overflow]: None when the line does not exist or the
\* position is past its end
cursor_to_buf_pos_in(vis, cursor_pos) ==
    IF cursor_pos.y + 1 > Len(vis)
    THEN [some |-> FALSE, pos |-> 0, range |-> Range(0, 0), overflow |-> FALSE]
    ELSE [some |-> wrapping_add(vis[cursor_pos.y + 1].start, cursor_pos.x)
                       <= vis[cursor_pos.y + 1].end,
          pos |-> wrapping_add(vis[cursor_pos.y + 1].start, cursor_pos.x),
          range |-> vis[cursor_pos.y + 1],
          overflow |-> add_overflows(vis[cursor_pos.y + 1].start, cursor_pos.x)]

cursor_to_buf_pos(buf, cursor_pos, width, height) ==
    cursor_to_buf_pos_in(visible_line_ranges(buf, width, height), cursor_pos)

\* TerminalBuffer::new
TerminalBuffer_new == <<>>

\* the length buf has after insert_data, where the copy goes, and whether the
\* call panics before the copy is done (index out of bounds, slice out of range)
insert_data_range(data, pad) ==
    [size |-> pad.size,
     write_idx |-> pad.desired_start,
     write_end |-> wrapping_add(pad.desired_start, Len(data)),
     panic |-> \/ pad.panic
               \/ pad.desired_start > wrapping_add(pad.desired_start, Len(data))
               \/ wrapping_add(pad.desired_start, Len(data)) > pad.size,
     overflow |-> pad.overflow \/ add_overflows(pad.desired_start, Len(data))]

insert_data_plan(buf, width, height, cursor_pos, data) ==
    insert_data_range(data, pad_plan(buf, width, height, cursor_pos, Len(data)))

\* TerminalBufferInsertResponse, with whether the call panicked or overflowed
insert_data_response(plan, written, cur) ==
    [buf |-> written,
     written_range |-> Range(plan.write_idx, plan.write_end),
     new_cursor_pos |-> cur.pos,
     panic |-> cur.panic,
     overflow |-> plan.overflow \/ cur.overflow]

insert_data_written(width, height, plan, written) ==
    insert_data_response(plan, written,
        buf_to_cursor_pos(written, width, height, plan.write_end))

insert_data_copy(width, height, data, plan, padded) ==
    insert_data_written(width, height, plan,
        [i \in 1..Len(padded) |->
            IF plan.write_idx < i /\ i <= plan.write_end
            THEN data[i - plan.write_idx] ELSE padded[i]])

\* TerminalBuffer::insert_data, for a call that gets as far as the copy
insert_data(buf, width, height, cursor_pos, data) ==
    insert_data_copy(width, height, data,
        insert_data_plan(buf, width, height, cursor_pos, data),
        pad_buffer_for_write(buf, width, height, cursor_pos, Len(data)))

\* TerminalBuffer::clear_forwards: [buf, some, clear_pos, overflow]
clear_forwards(buf, width, cursor_pos) ==
    LET line_ranges == calc_line_ranges(buf, width)
    IN  IF cursor_pos.y + 1 > Len(line_ranges)
        THEN [buf |-> buf, some |-> FALSE, clear_pos |-> 0, overflow |-> FALSE]
        ELSE LET line_range == line_ranges[cursor_pos.y + 1]
                 clear_pos == wrapping_add(line_range.start, cursor_pos.x)
             IN  IF cursor_pos.x > line_range.end
                 THEN [buf |-> buf, some |-> FALSE, clear_pos |-> 0,
                       overflow |-> FALSE]
                 ELSE [buf |-> IF clear_pos < Len(buf)
                               THEN SubSeq(buf, 1, clear_pos) ELSE buf,
                       some |-> TRUE, clear_pos |-> clear_pos,
                       overflow |-> add_overflows(line_range.start, cursor_pos.x)]

\* TerminalBuffer::clear_all
clear_all(buf) == <<>>

\* TerminalBuffer::append_newline_at_line_end
append_newline_at_line_end(buf, width, pos) ==
    LET line_ranges == calc_line_ranges(buf, width)
    IN  IF pos.y + 1 > Len(line_ranges) THEN buf
        ELSE IF \E i \in line_ranges[pos.y + 1].start..(Len(buf) - 1) :
                    buf[i + 1] = 10
             THEN buf
             ELSE Append(buf, 10)

\* TerminalBuffer::delete_forwards: [buf, some, range, panic, overflow];
\* c is what cursor_to_buf_pos returned
delete_forwards_at(buf, c, end0, line_end) ==
    LET buf1 == IF end0 > line_end
                   /\ ~(line_end < Len(buf) /\ buf[line_end + 1] = 10)
                THEN SubSeq(buf, 1, line_end) \o <<10>>
                     \o SubSeq(buf, line_end + 1, Len(buf))
                ELSE buf
        end1 == IF line_end < end0 THEN line_end ELSE end0
    IN  IF c.pos > end1
        THEN [buf |-> buf, some |-> FALSE, range |-> Range(0, 0),
              panic |-> TRUE, overflow |-> TRUE]
        ELSE [buf |-> SubSeq(buf1, 1, c.pos) \o SubSeq(buf1, end1 + 1, Len(buf1)),
              some |-> TRUE, range |-> Range(c.pos, end1), panic |-> FALSE,
              overflow |-> c.overflow \/ end0 < c.pos]

delete_forwards_from(buf, c, num_chars) ==
    IF ~c.some
    THEN [buf |-> buf, some |-> FALSE, range |-> Range(0, 0),
          panic |-> FALSE, overflow |-> c.overflow]
    ELSE delete_forwards_at(buf, c, wrapping_add(c.pos, num_chars), c.range.end)

delete_forwards(buf, width, height, cursor_pos, num_chars) ==
    delete_forwards_from(buf, cursor_to_buf_pos(buf, cursor_pos, width, height),
                         num_chars)

----------------------------------------------------------------------------
(* mod.rs: TerminalInput and the TerminalEmulator *)

char_to_ctrl_code(c) == c % 32

\* TerminalInput: kind names the variant, c is the byte of Ascii and Ctrl
TerminalInput(kind, c) == [kind |-> kind, c |-> c]

\* a to_payload that ignores the cursor keys mode
to_payload_mode_ignored(self, decckm) ==
    CASE self.kind = "Ascii" -> <<self.c>>
      [] self.kind = "Ctrl" -> <<self.c % 32>>
      [] self.kind = "Enter" -> <<10>>
      [] self.kind = "Backspace" -> <<127>>
      [] self.kind = "ArrowRight" -> <<27, 91, 67>>
      [] self.kind = "ArrowLeft" -> <<27, 91, 68>>
      [] self.kind = "ArrowUp" -> <<27, 91, 65>>
      [] self.kind = "ArrowDown" -> <<27, 91, 66>>
      [] self.kind = "Home" -> <<27, 91, 72>>
      [] self.kind = "End" -> <<27, 91, 70>>

\* TerminalInput::to_payload, as the bytes of the payload
to_payload(self, decckm) ==
    CASE self.kind = "Ascii" -> <<self.c>>
      [] self.kind = "Ctrl" -> <<char_to_ctrl_code(self.c)>>
      [] self.kind = "Enter" -> <<10>>
      [] self.kind = "Backspace" -> <<127>>
      [] self.kind = "ArrowRight" -> IF decckm THEN <<27, 79, 67>> ELSE <<27, 91, 67>>
      [] self.kind = "ArrowLeft" -> IF decckm THEN <<27, 79, 68>> ELSE <<27, 91, 68>>
      [] self.kind = "ArrowUp" -> IF decckm THEN <<27, 79, 65>> ELSE <<27, 91, 65>>
      [] self.kind = "ArrowDown" -> IF decckm THEN <<27, 79, 66>> ELSE <<27, 91, 66>>
      [] self.kind = "Home" -> IF decckm THEN <<27, 79, 72>> ELSE <<27, 91, 72>>
      [] self.kind = "End" -> IF decckm THEN <<27, 79, 70>> ELSE <<27, 91, 70>>

\* TerminalColor::from_sgr on the variant name of an Sgr op: an Option
from_sgr(kind) ==
    CASE kind = "ForegroundBlack" -> Some("Black")
      [] kind = "ForegroundRed" -> Some("Red")
      [] kind = "ForegroundGreen" -> Some("Green")
      [] kind = "ForegroundYellow" -> Some("Yellow")
      [] kind = "ForegroundBlue" -> Some("Blue")
      [] kind = "ForegroundMagenta" -> Some("Magenta")
      [] kind = "ForegroundCyan" -> Some("Cyan")
      [] kind = "ForegroundWhite" -> Some("White")
      [] OTHER -> None

\* the cursor state after the Sgr arm of TerminalEmulator::read
apply_sgr(cs, kind) ==
    IF from_sgr(kind) # None THEN [cs EXCEPT !.color = from_sgr(kind)[1]]
    ELSE IF kind = "Reset" THEN [cs EXCEPT !.color = "Default", !.bold = FALSE]
    ELSE IF kind = "Bold" THEN [cs EXCEPT !.bold = TRUE]
    ELSE cs

\* TerminalEmulator::new: the cursor state
CursorState_new == [pos |-> CursorPos(0, 0), bold |-> FALSE, color |-> "Default"]

----------------------------------------------------------------------------
(* buffer.rs: TerminalBuffer2, a ring of height rows of at most width     *)
(* bytes each, and the scrollback bytes evicted from it. A row is its      *)
(* stored bytes (buf[..len]) and its newline flag; the bytes of a row past *)
(* len are never read.                                                     *)

Line(buf, newline) == [buf |-> buf, newline |-> newline]

\* Line::clear
Line_clear == Line(<<>>, FALSE)

\* Line::insert_spaces at pos of a row of the given width:
\* [line, overflow] (buf.len() - pos underflows when pos > width)
Line_insert_spaces_at(line, pos, num_spaces, dest_end) ==
    IF pos + num_spaces > dest_end THEN line
    ELSE Line([i \in 1..dest_end |->
                  IF i <= pos THEN line.buf[i]
                  ELSE IF i <= pos + num_spaces THEN 32
                  ELSE line.buf[i - num_spaces]],
              line.newline)

\* insert_spaces without the clamp of dest_end to the width
Line_insert_spaces_unclamped(line, width, pos, num_spaces) ==
    Line_insert_spaces_at(line, pos, num_spaces, num_spaces + Len(line.buf))

Line_insert_spaces_min(line, width, pos, num_spaces) ==
    Line_insert_spaces_at(line, pos, num_spaces,
        IF num_spaces + Len(line.buf) < width
        THEN num_spaces + Len(line.buf) ELSE width)

\* insert_spaces without the clamp of num_spaces to the room left in the row
Line_insert_spaces_unfitted(line, width, pos, num_spaces) ==
    Line_insert_spaces_min(line, width, pos, num_spaces)

Line_insert_spaces(line, width, pos, num_spaces) ==
    Line_insert_spaces_min(line, width, pos,
        IF num_spaces < wrapping_sub(width, pos)
        THEN num_spaces ELSE wrapping_sub(width, pos))

\* the first newline among the first n bytes of data, as an Option of its
\* index counted from 0
newline_position(data, n) ==
    IF \E i \in 1..n : data[i] = 10
    THEN Some(Min({i \in 1..n : data[i] = 10}) - 1) ELSE None

\* an insert_data that makes room for the data, moving the bytes from pos on
\* to the right and dropping what passes the width
FirstBytes(s, n) == SubSeq(s, 1, IF Len(s) < n THEN Len(s) ELSE n)

Line_insert_data_copy_shifting(line, width, data, pos, copy_len, newline_pos) ==
    [line |-> Line(FirstBytes(FirstBytes(line.buf, pos)
                          \o [i \in 1..(pos - Len(line.buf)) |-> 32]
                          \o SubSeq(data, 1, copy_len)
                          \o SubSeq(line.buf, pos + 1, Len(line.buf)),
                          width),
                   line.newline \/ newline_pos # None),
     consumed |-> IF newline_pos # None THEN newline_pos[1] + 1 ELSE copy_len,
     new_x_pos |-> IF newline_pos # None THEN width ELSE pos + copy_len]

\* Line::insert_data once copy_len and newline_pos are known:
\* LineInsertionResponse and the row
Line_insert_data_copy(line, width, data, pos, copy_len, newline_pos) ==
    [line |-> Line([i \in 1..(IF Len(line.buf) > pos + copy_len
                              THEN Len(line.buf) ELSE pos + copy_len) |->
                       IF pos < i /\ i <= pos + copy_len THEN data[i - pos]
                       ELSE IF i <= Len(line.buf) THEN line.buf[i] ELSE 32],
                   line.newline \/ newline_pos # None),
     consumed |-> IF newline_pos # None THEN newline_pos[1] + 1 ELSE copy_len,
     new_x_pos |-> IF newline_pos # None THEN width ELSE pos + copy_len]

Line_insert_data_found(line, width, data, pos, copy_len, newline_pos) ==
    Line_insert_data_copy(line, width, data, pos,
        IF newline_pos # None /\ newline_pos[1] < copy_len
        THEN newline_pos[1] ELSE copy_len,
        newline_pos)

Line_insert_data_len(line, width, data, pos, copy_len) ==
    Line_insert_data_found(line, width, data, pos, copy_len,
        newline_position(data, IF copy_len + 1 < Len(data)
                               THEN copy_len + 1 ELSE Len(data)))

\* Line::insert_data
Line_insert_data(line, width, data, pos) ==
    IF pos >= width
    THEN [line |-> line, consumed |-> 0, new_x_pos |-> pos]
    ELSE Line_insert_data_len(line, width, data, pos,
             IF width - pos < Len(data) THEN width - pos ELSE Len(data))

\* Line::serialize
Line_serialize(line) == line.buf

\* VisibleBuffer::new: every row cleared
VisibleBuffer_new(width, height) ==
    [lines |-> [i \in 1..height |-> Line_clear],
     width |-> width, height |-> height, first_line_idx |-> 0]

\* VisibleBuffer::resolve_idx
resolve_idx(vb, idx) == (vb.first_line_idx + idx) % vb.height

\* VisibleBuffer::get_line, and the store through the Line it returns
get_line(vb, y) == vb.lines[resolve_idx(vb, y) + 1]
\* a store that takes y as the place of the row, first_line_idx ignored
set_line_unresolved(vb, y, line) == [vb EXCEPT !.lines[(y % vb.height) + 1] = line]
set_line(vb, y, line) == [vb EXCEPT !.lines[resolve_idx(vb, y) + 1] = line]

\* VisibleBuffer::get_all_lines: the rows rotated left by first_line_idx
get_all_lines(vb) ==
    [i \in 1..vb.height |-> vb.lines[((vb.first_line_idx + i - 1) % vb.height) + 1]]

\* VisibleBuffer::push_line
push_line_at(vb) == set_line(vb, vb.height - 1, Line_clear)
\* push_line with first_line_idx left where it is
push_line_unrotated(vb) == push_line_at(vb)
push_line(vb) ==
    push_line_at([vb EXCEPT !.first_line_idx = (vb.first_line_idx + 1) % vb.height])

\* TerminalBuffer2
TerminalBuffer2(vb, sb) == [visible_buf |-> vb, scrollback |-> sb]

\* TerminalBuffer2::new
TerminalBuffer2_new(width, height) ==
    TerminalBuffer2(VisibleBuffer_new(width, height), <<>>)

\* a push_line_to_scrollback that keeps only the row it evicts
push_line_to_scrollback_replacing(self, line_to_evict) ==
    TerminalBuffer2(push_line(self.visible_buf),
                    Line_serialize(line_to_evict)
                        \o (IF line_to_evict.newline THEN <<10>> ELSE <<>>))

\* TerminalBuffer2::push_line_to_scrollback
push_line_to_scrollback_line(self, line_to_evict) ==
    TerminalBuffer2(push_line(self.visible_buf),
                    self.scrollback \o Line_serialize(line_to_evict)
                        \o (IF line_to_evict.newline THEN <<10>> ELSE <<>>))

push_line_to_scrollback(self) ==
    push_line_to_scrollback_line(self, get_line(self.visible_buf, 0))

\* what a call of TerminalBuffer2 leaves behind: the buffer, whether the call
\* panicked, its return value and the evictions it made, each as the buffer
\* before and after it
Outcome(self, panic, response, evictions) ==
    [self |-> self, panic |-> panic, response |-> response, evictions |-> evictions]

\* TerminalBuffer2::insert_data: the loop over the rows the data lands in
RECURSIVE insert_data_loop(_, _, _, _, _, _)

insert_data_loop_evicted(before, after, x, data, num_evicted_lines, evictions) ==
    insert_data_loop(after, x, after.visible_buf.height - 1, data,
                     num_evicted_lines + 1,
                     Append(evictions, [before |-> before, after |-> after]))

insert_data_loop_wrapped(self, x, y, data, num_evicted_lines, evictions) ==
    IF y > self.visible_buf.height - 1
    THEN insert_data_loop_evicted(self, push_line_to_scrollback(self), x, data,
                                  num_evicted_lines, evictions)
    ELSE insert_data_loop(self, x, y, data, num_evicted_lines, evictions)

insert_data_loop_line(self, y, data, num_evicted_lines, evictions, response) ==
    insert_data_loop_wrapped(
        TerminalBuffer2(set_line(self.visible_buf, y, response.line), self.scrollback),
        IF response.new_x_pos >= self.visible_buf.width THEN 0 ELSE response.new_x_pos,
        IF response.new_x_pos >= self.visible_buf.width THEN y + 1 ELSE y,
        SubSeq(data, response.consumed + 1, Len(data)),
        num_evicted_lines, evictions)

insert_data_loop(self, x, y, data, num_evicted_lines, evictions) ==
    IF data = <<>>
    THEN [self |-> self, x |-> x, y |-> y,
          num_evicted_lines |-> num_evicted_lines, evictions |-> evictions]
    ELSE insert_data_loop_line(self, y, data, num_evicted_lines, evictions,
             Line_insert_data(get_line(self.visible_buf, y),
                              self.visible_buf.width, data, x))

\* a response that counts the evicted rows where it should count their cells
insert_data_modification_rows(width, scrollback_end, write_start, done) ==
    Outcome(done.self, FALSE,
        [visible_to_scrollback |->
             <<Range(0, done.num_evicted_lines),
               Range(scrollback_end, Len(done.self.scrollback))>>,
         written_range |->
             Range(IF done.num_evicted_lines * width > write_start THEN 0
                   ELSE write_start - done.num_evicted_lines * width,
                   done.y * width + done.x),
         new_cursor_pos |-> CursorPos(done.x, done.y)],
        done.evictions)

\* TerminalBufferModification
insert_data_modification(width, scrollback_end, write_start, done) ==
    Outcome(done.self, FALSE,
        [visible_to_scrollback |->
             <<Range(0, done.num_evicted_lines * width),
               Range(scrollback_end, Len(done.self.scrollback))>>,
         written_range |->
             Range(IF done.num_evicted_lines * width > write_start THEN 0
                   ELSE write_start - done.num_evicted_lines * width,
                   done.y * width + done.x),
         new_cursor_pos |-> CursorPos(done.x, done.y)],
        done.evictions)

insert_data_from(self, cursor_pos, data, evictions) ==
    IF cursor_pos.y > self.visible_buf.height - 1
    THEN Outcome(self, TRUE, None, evictions)
    ELSE insert_data_modification(self.visible_buf.width, Len(self.scrollback),
             IF data # <<>> /\ data[1] = 10
             THEN (cursor_pos.y + 1) * self.visible_buf.width + cursor_pos.x
             ELSE cursor_pos.y * self.visible_buf.width + cursor_pos.x,
             insert_data_loop(self, cursor_pos.x, cursor_pos.y, data, 0, evictions))

\* TerminalBuffer2::insert_data
buf2_insert_data(self, cursor_pos, data) ==
    insert_data_from(self, cursor_pos, data, <<>>)

\* TerminalBuffer2::insert_spaces: width - pos underflows for a cursor past
\* the width
buf2_insert_spaces_overflows(self, cursor_pos) ==
    /\ cursor_pos.y < self.visible_buf.height
    /\ sub_overflows(self.visible_buf.width, cursor_pos.x)

buf2_insert_spaces(self, cursor_pos, num_spaces) ==
    IF cursor_pos.y >= self.visible_buf.height THEN self
    ELSE TerminalBuffer2(
             set_line(self.visible_buf, cursor_pos.y,
                 Line_insert_spaces(get_line(self.visible_buf, cursor_pos.y),
                                    self.visible_buf.width, cursor_pos.x, num_spaces)),
             self.scrollback)

\* TerminalBuffer2::insert_spaces: the TerminalBufferInsertResponse
buf2_insert_spaces_response(self, cursor_pos, num_spaces) ==
    [written_range |-> Range(0, 0), insertion_range |-> Range(0, 0),
     new_cursor_pos |-> cursor_pos]

\* the rows in the order of get_all_lines, stored back where they live
put_all_lines(vb, lines) ==
    [vb EXCEPT !.lines =
        [p \in 1..vb.height |->
            lines[((p - 1 + vb.height - vb.first_line_idx) % vb.height) + 1]]]

\* TerminalBuffer2::insert_lines: the loop over source_idx, downwards;
\* dest is b.get_mut(num_lines - 1), the row source_idx + 1 + (num_lines - 1)
RECURSIVE insert_lines_loop(_, _, _, _)

\* the loop body without source.clear()
insert_lines_copied_uncleared(lines, y, dest, source_idx) ==
    insert_lines_loop(
        [i \in 1..Len(lines) |->
            IF i = dest + 1 THEN lines[source_idx + 1] ELSE lines[i]],
        y, dest - source_idx, source_idx - 1)

insert_lines_copied(lines, y, dest, source_idx) ==
    insert_lines_loop(
        [i \in 1..Len(lines) |->
            IF i = source_idx + 1 THEN Line_clear
            ELSE IF i = dest + 1 THEN lines[source_idx + 1]
            ELSE lines[i]],
        y, dest - source_idx, source_idx - 1)

insert_lines_loop(lines, y, offset, source_idx) ==
    IF source_idx < y THEN lines
    ELSE insert_lines_copied(lines, y, source_idx + offset, source_idx)

buf2_insert_lines_overflows(self, cursor_pos, num_lines) ==
    cursor_pos.y < self.visible_buf.height /\ sub_overflows(num_lines, 1)

buf2_insert_lines(self, cursor_pos, num_lines) ==
    TerminalBuffer2(
        put_all_lines(self.visible_buf,
            insert_lines_loop(get_all_lines(self.visible_buf), cursor_pos.y,
                              1 + wrapping_sub(num_lines, 1),
                              self.visible_buf.height - 1)),
        self.scrollback)

\* a clear_line_forwards that empties the row
buf2_clear_line_forwards_emptied(self, cursor_pos, line) ==
    TerminalBuffer2(set_line(self.visible_buf, cursor_pos.y, Line_clear),
                    self.scrollback)

\* TerminalBuffer2::clear_line_forwards
buf2_clear_line_forwards_at(self, cursor_pos, line) ==
    TerminalBuffer2(
        set_line(self.visible_buf, cursor_pos.y,
            Line(SubSeq(line.buf, 1, IF cursor_pos.x < Len(line.buf)
                                     THEN cursor_pos.x ELSE Len(line.buf)),
                 FALSE)),
        self.scrollback)

buf2_clear_line_forwards(self, cursor_pos) ==
    buf2_clear_line_forwards_at(self, cursor_pos, get_line(self.visible_buf, cursor_pos.y))

\* TerminalBuffer2::clear_forwards
clear_lines_below(vb, y) ==
    [vb EXCEPT !.lines =
        [p \in 1..vb.height |->
            IF \E l \in (y + 1)..(vb.height - 1) : resolve_idx(vb, l) + 1 = p
            THEN Line_clear ELSE vb.lines[p]]]

buf2_clear_forwards_line(self, cursor_pos) ==
    TerminalBuffer2(clear_lines_below(self.visible_buf, cursor_pos.y), self.scrollback)

buf2_clear_forwards(self, cursor_pos) ==
    buf2_clear_forwards_line(buf2_clear_line_forwards(self, cursor_pos), cursor_pos)

\* TerminalBuffer2::clear_all
buf2_clear_all(self) ==
    TerminalBuffer2([self.visible_buf EXCEPT
                        !.lines = [p \in 1..self.visible_buf.height |-> Line_clear]],
                    <<>>)

\* a delete_forwards that drops the rest of the row
buf2_delete_forwards_truncating(self, cursor_pos, line, num_chars) ==
    TerminalBuffer2(
        set_line(self.visible_buf, cursor_pos.y,
                 Line(SubSeq(line.buf, 1, cursor_pos.x), line.newline)),
        self.scrollback)

\* TerminalBuffer2::delete_forwards
buf2_delete_forwards_chars(self, cursor_pos, line, num_chars) ==
    TerminalBuffer2(
        set_line(self.visible_buf, cursor_pos.y,
            Line(SubSeq(line.buf, 1, cursor_pos.x)
                     \o SubSeq(line.buf, cursor_pos.x + num_chars + 1, Len(line.buf)),
                 line.newline)),
        self.scrollback)

buf2_delete_forwards_line(self, cursor_pos, line, num_chars) ==
    IF cursor_pos.x > Len(line.buf) THEN self
    ELSE buf2_delete_forwards_chars(self, cursor_pos, line,
             IF num_chars < Len(line.buf) - cursor_pos.x
             THEN num_chars ELSE Len(line.buf) - cursor_pos.x)

buf2_delete_forwards(self, cursor_pos, num_chars) ==
    buf2_delete_forwards_line(self, cursor_pos,
        get_line(self.visible_buf, cursor_pos.y), num_chars)

\* TerminalBuffer2::delete_forwards: the Option<Range<usize>> it returns
buf2_delete_forwards_response(self, cursor_pos, num_chars) == None

\* VisibleBuffer::serialize: the data of VisibleBufferSerializeResponse
last_line_with_content(lines) ==
    IF \E i \in 1..Len(lines) : Len(lines[i].buf) > 0
    THEN CHOOSE i \in 1..Len(lines) :
             /\ Len(lines[i].buf) > 0
             /\ \A j \in (i + 1)..Len(lines) : Len(lines[j].buf) = 0
    ELSE 1

RECURSIVE serialize_lines(_, _, _, _)
serialize_lines(lines, width, y, last) ==
    IF y >= last THEN lines[last].buf
    ELSE lines[y].buf
         \o (IF lines[y].newline \/ Len(lines[y].buf) < width
                \/ Len(lines[y + 1].buf) = 0
             THEN <<10>> ELSE <<>>)
         \o serialize_lines(lines, width, y + 1, last)

\* a view left without its last newline
serialize_data_unterminated(data) == data

serialize_data(data) == IF data # <<>> THEN Append(data, 10) ELSE data

serialize_all(lines, width) ==
    serialize_data(serialize_lines(lines, width, 1, last_line_with_content(lines)))

VisibleBuffer_serialize(vb) == serialize_all(get_all_lines(vb), vb.width)

\* TerminalBuffer2::data
buf2_data(self) ==
    [scrollback |-> self.scrollback, visible |-> VisibleBuffer_serialize(self.visible_buf)]

\* TerminalBuffer2::set_win_size: the loop over the old rows. r is the
\* outcome of the last insert_data, its new_cursor_pos is pos
RECURSIVE set_win_size_loop(_, _, _, _, _)

set_win_size_line_done(r, old_lines, i, new_cursor_pos, cursor_pos) ==
    set_win_size_loop(
        IF old_lines[i].newline
        THEN insert_data_from(r.self, r.response.new_cursor_pos, <<10>>, r.evictions)
        ELSE r,
        old_lines, i + 1, new_cursor_pos, cursor_pos)

set_win_size_cursor_line(pos, first, old_lines, i, cursor_pos) ==
    set_win_size_line_done(
        insert_data_from(first.self, pos,
            SubSeq(old_lines[i].buf, cursor_pos.x + 1, Len(old_lines[i].buf)),
            first.evictions),
        old_lines, i, first.response.new_cursor_pos, cursor_pos)

set_win_size_loop(r, old_lines, i, new_cursor_pos, cursor_pos) ==
    IF i > Len(old_lines)
    THEN Outcome(r.self, FALSE,
                 [changed |-> TRUE, new_cursor_pos |-> new_cursor_pos], r.evictions)
    ELSE IF i - 1 = cursor_pos.y
    THEN IF cursor_pos.x > Len(old_lines[i].buf)
         THEN Outcome(r.self, TRUE, None, r.evictions)
         ELSE set_win_size_cursor_line(r.response.new_cursor_pos,
                  insert_data_from(r.self, r.response.new_cursor_pos,
                      SubSeq(old_lines[i].buf, 1, cursor_pos.x), r.evictions),
                  old_lines, i, cursor_pos)
    ELSE set_win_size_line_done(
             insert_data_from(r.self, r.response.new_cursor_pos,
                              old_lines[i].buf, r.evictions),
             old_lines, i, new_cursor_pos, cursor_pos)

set_win_size(self, width, height, cursor_pos) ==
    IF self.visible_buf.width = width /\ self.visible_buf.height = height
    THEN Outcome(self, FALSE,
                 [changed |-> FALSE, new_cursor_pos |-> cursor_pos], <<>>)
    ELSE set_win_size_loop(
             Outcome(TerminalBuffer2(VisibleBuffer_new(width, height), self.scrollback),
                     FALSE, [new_cursor_pos |-> CursorPos(0, 0)], <<>>),
             get_all_lines(self.visible_buf), 1, CursorPos(0, 0), cursor_pos)

----------------------------------------------------------------------------
(* mod.rs: TerminalEmulator::write, one nix::unistd::write at a time. pc is *)
(* "single" inside `while written == 0`, "many" inside                     *)
(* `while !to_write.is_empty()`, "returned" outside write; to_write is the  *)
(* byte of Single or the rest of the slice of Many; accepted holds the      *)
(* bytes the fd has taken from this call, payload what to_payload gave.     *)

\* TerminalInputPayload::Single or ::Many
payload_is_single(self) == self.kind \in {"Ascii", "Ctrl", "Enter", "Backspace"}

WriteCall(pc, to_write, accepted, payload) ==
    [pc |-> pc, to_write |-> to_write, accepted |-> accepted, payload |-> payload]

\* no write call is running
WriteCall_new == WriteCall("returned", <<>>, <<>>, <<>>)

\* the match on to_payload: the loop that is entered
write_entered(self, payload) ==
    WriteCall(IF payload_is_single(self) THEN "single"
              ELSE IF payload # <<>> THEN "many" ELSE "returned",
              payload, <<>>, payload)

\* a Many loop that starts over from the whole slice after a short write
write_many_restarted(call, written) ==
    [call EXCEPT !.accepted = @ \o SubSeq(call.to_write, 1, written),
                 !.pc = IF written = Len(call.to_write) THEN "returned" ELSE "many"]

\* one pass of `while written == 0`: the fd took `written` of the one byte
write_single(call, written) ==
    [call EXCEPT !.accepted = @ \o SubSeq(call.to_write, 1, written),
                 !.pc = IF written = 0 THEN "single" ELSE "returned"]

\* one pass of `while !to_write.is_empty()`: the fd took `written` bytes
write_many(call, written) ==
    [call EXCEPT !.accepted = @ \o SubSeq(call.to_write, 1, written),
                 !.to_write = SubSeq(call.to_write, written + 1, Len(call.to_write)),
                 !.pc = IF written = Len(call.to_write) THEN "returned" ELSE "many"]

\* one nix::unistd::write of the loop the call is in
write_pass(call, written) ==
    IF call.pc = "single" THEN write_single(call, written)
    ELSE write_many(call, written)

----------------------------------------------------------------------------
(* recording.rs: Recording and RecordingItem *)

\* RecordingItem::Write { data } and ::SetWinSize { width, height }, one
\* record shape for both
RecordingItem_Write(data) ==
    [type |-> "Write", data |-> data, width |-> 0, height |-> 0]
RecordingItem_SetWinSize(width, height) ==
    [type |-> "SetWinSize", data |-> <<>>, width |-> width, height |-> height]

\* Recording: initial_state is the set of the names snapshotted
Recording(initial_state, items) == [initial_state |-> initial_state, items |-> items]

\* Recording::new
Recording_new == Recording({}, <<>>)

----------------------------------------------------------------------------
(* replay.rs: RecordingTracker and ReplayControl. The Receiver of the      *)
(* channel lives as long as the ReplayControl does, in it or in the        *)
(* ReplayIo that io_handle gave out.                                       *)

item_len(item) == IF item.type = "Write" THEN Len(item.data) ELSE 1

calc_segment_lengths(recording) ==
    [i \in 1..Len(recording.items) |-> item_len(recording.items[i])]

\* Iterator::sum of the first n elements (take(n))
RECURSIVE sum_take(_, _)
sum_take(lengths, n) ==
    IF n = 0 \/ lengths = <<>> THEN 0
    ELSE Head(lengths) + sum_take(Tail(lengths), n - 1)

\* RecordingAction
RecordingAction_Write(b) == [action |-> "Write", b |-> b, width |-> 0, height |-> 0]
RecordingAction_SetWinSize(width, height) ==
    [action |-> "SetWinSize", b |-> 0, width |-> width, height |-> height]
RecordingAction_None == [action |-> "None", b |-> 0, width |-> 0, height |-> 0]

RecordingTracker(item_idx, item_pos) == [item_idx |-> item_idx, item_pos |-> item_pos]

\* the action the tracker returns for the item it stands in
RecordingTracker_action(self, item) ==
    IF item.type = "Write" THEN RecordingAction_Write(item.data[self.item_pos + 1])
    ELSE RecordingAction_SetWinSize(item.width, item.height)

\* a next that stays on the action it returned
RecordingTracker_returned_unadvanced(self, item) ==
    [tracker |-> self, action |-> RecordingTracker_action(self, item)]

\* the end of the loop body: the action, and item_pos moved on
RecordingTracker_returned(self, item) ==
    [tracker |-> RecordingTracker(self.item_idx, self.item_pos + 1),
     action |-> RecordingTracker_action(self, item)]

\* RecordingTracker::next: [tracker, action]
RECURSIVE RecordingTracker_next(_, _)
RecordingTracker_next(self, recording) ==
    IF self.item_idx >= Len(recording.items)
    THEN [tracker |-> self, action |-> RecordingAction_None]
    ELSE IF self.item_pos >= item_len(recording.items[self.item_idx + 1])
    THEN RecordingTracker_next(RecordingTracker(self.item_idx + 1, 0), recording)
    ELSE RecordingTracker_returned(self, recording.items[self.item_idx + 1])

\* ControlAction
ControlAction_Resize(width, height) ==
    [action |-> "Resize", width |-> width, height |-> height]
ControlAction_None == [action |-> "None", width |-> 0, height |-> 0]

\* ReplayControl; tx holds the bytes sent and not yet received
ReplayControl(recording, tracker, tx) ==
    [recording |-> recording, tracker |-> tracker,
     segment_lengths |-> calc_segment_lengths(recording),
     total_len |-> sum_take(calc_segment_lengths(recording), Len(recording.items)),
     tx |-> tx]

\* ReplayControl::new
ReplayControl_new(recording) == ReplayControl(recording, RecordingTracker(0, 0), <<>>)

\* ReplayControl::current_pos
current_pos(self) ==
    sum_take(self.segment_lengths, self.tracker.item_idx) + self.tracker.item_pos

\* ReplayControl::len
ReplayControl_len(self) == self.total_len

\* ReplayControl::next once the tracker has answered: the control, the
\* ControlAction returned and the bytes sent to the channel
ReplayControl_next_action(self, r) ==
    [self |-> [self EXCEPT !.tracker = r.tracker,
                           !.tx = IF r.action.action = "Write"
                                  THEN Append(@, r.action.b) ELSE @],
     ret |-> IF r.action.action = "SetWinSize"
             THEN ControlAction_Resize(r.action.width, r.action.height)
             ELSE ControlAction_None,
     sent |-> IF r.action.action = "Write" THEN <<r.action.b>> ELSE <<>>]

\* ReplayControl::next
ReplayControl_next(self) ==
    ReplayControl_next_action(self, RecordingTracker_next(self.tracker, self.recording))

\* ReplayIo::read into a buffer of buf_len bytes: the bytes left in the
\* channel and the bytes put into buf. The byte received when buf is
\* already full is dropped by the break.
ReplayIo_read(rx, buf_len) ==
    [rx |-> SubSeq(rx, buf_len + 2, Len(rx)),
     buf |-> SubSeq(rx, 1, IF Len(rx) < buf_len THEN Len(rx) ELSE buf_len)]

ReplayHist_new ==
    [nexts |-> 0, performed |-> <<>>, returned |-> ControlAction_None, read |-> <<>>]

----------------------------------------------------------------------------
(* recording.rs: Recorder. arcs holds the RecordingHandleInner objects     *)
(* alive, each with its number of strong handles (strong) and whether one  *)
(* of them is still the RecordingInitializer; handle is the id of the      *)
(* object the Weak points at, 0 for Weak::new().                           *)

RecordingHandleInner(id, strong, initializer, recording, path) ==
    [id |-> id, strong |-> strong, initializer |-> initializer,
     recording |-> recording, path |-> path]

\* Recorder::new
Recorder_new == [handle |-> 0, arcs |-> {}, next_id |-> 1]

\* Weak::upgrade: an Option of the object
upgrade(self) ==
    IF \E a \in self.arcs : a.id = self.handle
    THEN Some(CHOOSE a \in self.arcs : a.id = self.handle)
    ELSE None

\* the object a replaced by b
arc_replaced(self, a, b) == [self EXCEPT !.arcs = (@ \ {a}) \cup {b}]

\* find_recording_path: the first number with no file in recording_dir
find_recording_path(dir) ==
    CHOOSE i \in 0..Cardinality(dir) : i \notin dir /\ \A j \in 0..(i - 1) : j \in dir

\* the items after Recorder::set_win_size
items_set_win_size(items, width, height) ==
    Append(items, RecordingItem_SetWinSize(width, height))

\* a write that always starts a new item
items_write_pushed(items, to_insert) == Append(items, RecordingItem_Write(to_insert))

\* the items after Recorder::write
items_write(items, to_insert) ==
    IF items # <<>> /\ items[Len(items)].type = "Write"
    THEN [items EXCEPT ![Len(items)].data = @ \o to_insert]
    ELSE Append(items, RecordingItem_Write(to_insert))

\* Recorder::set_win_size
Recorder_set_win_size(self, width, height) ==
    IF upgrade(self) = None THEN self
    ELSE arc_replaced(self, upgrade(self)[1],
             [upgrade(self)[1] EXCEPT !.recording.items =
                 items_set_win_size(@, width, height)])

\* Recorder::write
Recorder_write(self, to_insert) ==
    IF upgrade(self) = None THEN self
    ELSE arc_replaced(self, upgrade(self)[1],
             [upgrade(self)[1] EXCEPT !.recording.items = items_write(@, to_insert)])

\* start_recording past the upgrade: the new object and the handle to it
Recorder_start_new(self, dir) ==
    [self |-> [handle |-> self.next_id,
               arcs |-> self.arcs \cup
                   {RecordingHandleInner(self.next_id, 1, TRUE, Recording_new,
                                         find_recording_path(dir))},
               next_id |-> self.next_id + 1],
     response |-> "New"]

\* a start_recording that does not look for a recording in progress
Recorder_start_unchecked(self, dir, dir_created) ==
    IF ~dir_created THEN [self |-> self, response |-> "Err"]
    ELSE Recorder_start_new(self, dir)

\* Recorder::start_recording: [self, response]; dir_created is whether
\* create_dir_all succeeded
Recorder_start_recording(self, dir, dir_created) ==
    IF ~dir_created THEN [self |-> self, response |-> "Err"]
    ELSE IF upgrade(self) # None
    THEN [self |-> arc_replaced(self, upgrade(self)[1],
                       [upgrade(self)[1] EXCEPT !.strong = @ + 1]),
          response |-> "Existing"]
    ELSE Recorder_start_new(self, dir)

\* RecordingInitializer::snapshot_item
snapshot_item(self, a, name) ==
    arc_replaced(self, a, [a EXCEPT !.recording.initial_state = @ \cup {name}])

\* RecordingInitializer::into_handle
into_handle(self, a) == arc_replaced(self, a, [a EXCEPT !.initializer = FALSE])

\* RecordingHandle::clone
RecordingHandle_clone(self, a) == arc_replaced(self, a, [a EXCEPT !.strong = @ + 1])

\* a strong handle of a is dropped; the last one takes the object with it
handle_dropped(self, a, is_initializer) ==
    IF a.strong = 1 THEN [self EXCEPT !.arcs = @ \ {a}]
    ELSE arc_replaced(self, a,
             [a EXCEPT !.strong = @ - 1,
                       !.initializer = IF is_initializer THEN FALSE ELSE @])

\* Drop for RecordingHandleInner: the file at path, if it could be written
RecordingHandleInner_drop(dir, a, saved) == IF saved THEN dir \cup {a.path} ELSE dir

RecorderHist_new == [log |-> <<>>, last |-> "none"]

----------------------------------------------------------------------------
(* recording.rs, ansi.rs, buffer.rs: snapshots. A SnapshotItem is a record *)
(* with its kind in snap and its content in v. Every usize of this model   *)
(* fits an i64, so no snapshot fails on try_into.                          *)

Snap_Int(v) == [snap |-> "Int", v |-> v]
Snap_String(v) == [snap |-> "String", v |-> v]
Snap_Array(v) == [snap |-> "Array", v |-> v]
Snap_Map(v) == [snap |-> "Map", v |-> v]

\* FromIterator for SnapshotItem over u8
Snap_Bytes(bytes) == Snap_Array([i \in 1..Len(bytes) |-> Snap_Int(bytes[i])])

\* an Array item into a Vec<u8>: an Option of the bytes
Snap_into_bytes(item) ==
    IF item.snap # "Array" THEN None
    ELSE IF \E i \in 1..Len(item.v) : item.v[i].snap # "Int" \/ item.v[i].v > 255
    THEN None
    ELSE Some([i \in 1..Len(item.v) |-> item.v[i].v])

\* csi_parser_state_keys of a CsiParserState
csi_parser_state_key(state) ==
    CASE state = "Params" -> "params"
      [] state = "Intermediates" -> "intermediates"
      [] state = "Finished" -> "finished"
      [] state = "Invalid" -> "invalid"
      [] OTHER -> "invalid_finished"

\* the `state` of CsiParser::snapshot
CsiParser_snapshot_state(self) ==
    IF self.state = "Finished"
    THEN Snap_Map([type |-> Snap_String("finished"), val |-> Snap_Int(self.fin)])
    ELSE Snap_Map([type |-> Snap_String(csi_parser_state_key(self.state))])

\* CsiParser::snapshot
CsiParser_snapshot(self) ==
    Snap_Map([state |-> CsiParser_snapshot_state(self),
              params |-> Snap_Bytes(self.params),
              intermediates |-> Snap_Bytes(self.intermediates)])

\* the `state` of CsiParser::from_snapshot: an Option of [state, fin]
CsiParser_state_from_snapshot(state) ==
    IF state.snap # "Map" THEN None
    ELSE IF "type" \notin DOMAIN state.v THEN None
    ELSE IF state.v.type.snap # "String" THEN None
    ELSE CASE state.v.type.v = "params" -> Some([state |-> "Params", fin |-> 0])
           [] state.v.type.v = "intermediates" ->
                  Some([state |-> "Intermediates", fin |-> 0])
           [] state.v.type.v = "invalid_finished" ->
                  Some([state |-> "InvalidFinished", fin |-> 0])
           [] state.v.type.v = "invalid" -> Some([state |-> "Invalid", fin |-> 0])
           [] state.v.type.v = "finished" ->
                  IF "val" \notin DOMAIN state.v THEN None
                  ELSE IF state.v.val.snap # "Int" \/ state.v.val.v > 255 THEN None
                  ELSE Some([state |-> "Finished", fin |-> state.v.val.v])
           [] OTHER -> None

\* CsiParser::from_snapshot: an Option of the parser
CsiParser_from_snapshot(snapshot) ==
    IF snapshot.snap # "Map" THEN None
    ELSE IF "params" \notin DOMAIN snapshot.v THEN None
    ELSE IF Snap_into_bytes(snapshot.v.params) = None THEN None
    ELSE IF "intermediates" \notin DOMAIN snapshot.v THEN None
    ELSE IF Snap_into_bytes(snapshot.v.intermediates) = None THEN None
    ELSE IF "state" \notin DOMAIN snapshot.v THEN None
    ELSE IF CsiParser_state_from_snapshot(snapshot.v.state) = None THEN None
    ELSE Some([state |-> CsiParser_state_from_snapshot(snapshot.v.state)[1].state,
               fin |-> CsiParser_state_from_snapshot(snapshot.v.state)[1].fin,
               params |-> Snap_into_bytes(snapshot.v.params)[1],
               intermediates |-> Snap_into_bytes(snapshot.v.intermediates)[1]])

\* AnsiParser::snapshot
AnsiParser_snapshot(self) ==
    CASE self.tag = "Empty" -> Snap_Map([type |-> Snap_String("empty")])
      [] self.tag = "Escape" -> Snap_Map([type |-> Snap_String("escape")])
      [] OTHER -> Snap_Map([type |-> Snap_String("csi"),
                            val |-> CsiParser_snapshot(self.csi)])

\* AnsiParser::from_snapshot: an Option of inner
AnsiParser_from_snapshot(snapshot) ==
    IF snapshot.snap # "Map" THEN None
    ELSE IF "type" \notin DOMAIN snapshot.v THEN None
    ELSE IF snapshot.v.type.snap # "String" THEN None
    ELSE CASE snapshot.v.type.v = "empty" -> Some(Inner("Empty", CsiParser_new))
           [] snapshot.v.type.v = "escape" -> Some(Inner("Escape", CsiParser_new))
           [] snapshot.v.type.v = "csi" ->
                  IF "val" \notin DOMAIN snapshot.v THEN None
                  ELSE IF CsiParser_from_snapshot(snapshot.v.val) = None THEN None
                  ELSE Some(Inner("Csi", CsiParser_from_snapshot(snapshot.v.val)[1]))
           [] OTHER -> None

\* size_of and align_of of the usize of this model
size_of_usize == 2

\* align_to_size
align_to_size(val, alignment) == ((val + alignment - 1) \div alignment) * alignment

\* the byte at offset k of VisibleBuffer.buf, which alloc hands out
\* uninitialized: the rows of width bytes each, the lengths, the newline
\* flags. Only the first len bytes of a row, the lengths and the flags have
\* been written; a read of another byte gives `uninit`.
VisibleBuffer_byte(vb, length_offset, newline_offset, k, uninit) ==
    IF k < vb.width * vb.height
    THEN IF k % vb.width < Len(vb.lines[(k \div vb.width) + 1].buf)
         THEN vb.lines[(k \div vb.width) + 1].buf[(k % vb.width) + 1]
         ELSE uninit
    ELSE IF k < length_offset THEN uninit
    ELSE IF k < length_offset + size_of_usize * vb.height
    THEN (Len(vb.lines[((k - length_offset) \div size_of_usize) + 1].buf)
             \div (256 ^ ((k - length_offset) % size_of_usize))) % 256
    ELSE IF k < newline_offset THEN uninit
    ELSE IF vb.lines[(k - newline_offset) + 1].newline THEN 1 ELSE 0

\* the VisibleBuffer as the struct holds it, read with `uninit` for the
\* bytes never written
VisibleBuffer_struct_at(vb, length_offset, newline_offset, uninit) ==
    [buf |-> [i \in 1..(newline_offset + vb.height) |->
                 VisibleBuffer_byte(vb, length_offset, newline_offset, i - 1, uninit)],
     length_offset |-> length_offset,
     newline_offset |-> newline_offset,
     width |-> vb.width, height |-> vb.height,
     first_line_idx |-> vb.first_line_idx]

VisibleBuffer_struct(vb, uninit) ==
    VisibleBuffer_struct_at(vb,
        align_to_size(vb.width * vb.height, size_of_usize),
        align_to_size(vb.width * vb.height, size_of_usize) + size_of_usize * vb.height,
        uninit)

\* VisibleBuffer::snapshot
VisibleBuffer_snapshot(self) ==
    Snap_Map([buf |-> Snap_Bytes(self.buf),
              length_offset |-> Snap_Int(self.length_offset),
              newline_offset |-> Snap_Int(self.newline_offset),
              width |-> Snap_Int(self.width),
              height |-> Snap_Int(self.height),
              first_line_idx |-> Snap_Int(self.first_line_idx)])

VisibleBufferKeys ==
    {"buf", "length_offset", "newline_offset", "width", "height", "first_line_idx"}

\* VisibleBuffer::from_snapshot: an Option of the struct
VisibleBuffer_from_snapshot(snapshot) ==
    IF snapshot.snap # "Map" THEN None
    ELSE IF ~(VisibleBufferKeys \subseteq DOMAIN snapshot.v) THEN None
    ELSE IF Snap_into_bytes(snapshot.v.buf) = None THEN None
    ELSE IF \E key \in VisibleBufferKeys \ {"buf"} :
                snapshot.v[key].snap # "Int" \/ snapshot.v[key].v > usize_MAX
    THEN None
    ELSE Some([buf |-> Snap_into_bytes(snapshot.v.buf)[1],
               length_offset |-> snapshot.v.length_offset.v,
               newline_offset |-> snapshot.v.newline_offset.v,
               width |-> snapshot.v.width.v, height |-> snapshot.v.height.v,
               first_line_idx |-> snapshot.v.first_line_idx.v])

\* the TerminalBuffer2 as the struct holds it
TerminalBuffer2_struct(self, uninit) ==
    [visible_buf |-> VisibleBuffer_struct(self.visible_buf, uninit),
     scrollback |-> self.scrollback]

\* TerminalBuffer2::snapshot
TerminalBuffer2_snapshot(self) ==
    Snap_Map([scrollback |-> Snap_Bytes(self.scrollback),
              visible_buf |-> VisibleBuffer_snapshot(self.visible_buf)])

\* TerminalBuffer2::from_snapshot: an Option of the struct
TerminalBuffer2_from_snapshot(snapshot) ==
    IF snapshot.snap # "Map" THEN None
    ELSE IF "visible_buf" \notin DOMAIN snapshot.v THEN None
    ELSE IF VisibleBuffer_from_snapshot(snapshot.v.visible_buf) = None THEN None
    ELSE IF "scrollback" \notin DOMAIN snapshot.v THEN None
    ELSE IF Snap_into_bytes(snapshot.v.scrollback) = None THEN None
    ELSE Some([visible_buf |-> VisibleBuffer_from_snapshot(snapshot.v.visible_buf)[1],
               scrollback |-> Snap_into_bytes(snapshot.v.scrollback)[1]])

----------------------------------------------------------------------------
(* recording.rs: the JSON of a recording. A JsonValue is a record with its *)
(* kind in json and its content in v; the text tinyjson writes and parses  *)
(* is taken to give back the JsonValue written. An `as f64` of a u8 or of  *)
(* a usize of this model is exact, and so is the way back through i64.     *)

Json_Number(v) == [json |-> "Number", v |-> v]
Json_String(v) == [json |-> "String", v |-> v]
Json_Array(v) == [json |-> "Array", v |-> v]
Json_Object(v) == [json |-> "Object", v |-> v]

\* a value snapshot_to_tinyjson made for initial_state
Json_Snapshot == [json |-> "Snapshot", v |-> 0]

\* RecordingItem::to_json
RecordingItem_to_json(self) ==
    IF self.type = "SetWinSize"
    THEN Json_Object([type |-> Json_String("set_win_size"),
                      width |-> Json_Number(self.width),
                      height |-> Json_Number(self.height)])
    ELSE Json_Object([type |-> Json_String("write"),
                      data |-> Json_Array([i \in 1..Len(self.data) |->
                                              Json_Number(self.data[i])])])

\* the "set_win_size" arm of from_json
set_win_size_from_json(map) ==
    IF "width" \notin DOMAIN map \/ "height" \notin DOMAIN map THEN None
    ELSE IF map.width.json # "Number" \/ map.height.json # "Number" THEN None
    ELSE IF map.width.v > usize_MAX \/ map.height.v > usize_MAX THEN None
    ELSE Some(RecordingItem_SetWinSize(map.width.v, map.height.v))

\* the "write" arm of from_json
write_from_json(map) ==
    IF "data" \notin DOMAIN map THEN None
    ELSE IF map.data.json # "Array" THEN None
    ELSE IF \E i \in 1..Len(map.data.v) :
                \/ map.data.v[i].json # "Number"
                \/ map.data.v[i].v > 255
    THEN None
    ELSE Some(RecordingItem_Write([i \in 1..Len(map.data.v) |-> map.data.v[i].v]))

\* RecordingItem::from_json: an Option of the item
RecordingItem_from_json(json) ==
    IF json.json # "Object" THEN None
    ELSE IF "type" \notin DOMAIN json.v THEN None
    ELSE IF json.v.type.json # "String" THEN None
    ELSE IF json.v.type.v = "set_win_size" THEN set_win_size_from_json(json.v)
    ELSE IF json.v.type.v = "write" THEN write_from_json(json.v)
    ELSE None

\* Recording::to_json
Recording_to_json(self) ==
    Json_Object([initial_state |->
                     Json_Object([name \in self.initial_state |-> Json_Snapshot]),
                 items |-> Json_Array([i \in 1..Len(self.items) |->
                                          RecordingItem_to_json(self.items[i])])])

\* Recording::load of a file that holds json: an Option of the recording
Recording_load(json) ==
    IF json.json # "Object" THEN None
    ELSE IF "initial_state" \notin DOMAIN json.v THEN None
    ELSE IF json.v.initial_state.json # "Object" THEN None
    ELSE IF "items" \notin DOMAIN json.v THEN None
    ELSE IF json.v.items.json # "Array" THEN None
    ELSE IF \E i \in 1..Len(json.v.items.v) :
                RecordingItem_from_json(json.v.items.v[i]) = None
    THEN None
    ELSE Some(Recording(DOMAIN json.v.initial_state.v,
                        [i \in 1..Len(json.v.items.v) |->
                            RecordingItem_from_json(json.v.items.v[i])[1]]))

----------------------------------------------------------------------------
(* recording.rs: Recorder::write and Recorder::set_win_size step by step,  *)
(* on a thread of their own: the upgrade, the locked change, the unlock,   *)
(* and the drop of the upgraded Arc                                        *)

\* the call that put item into the recording id, at pc; held is whether it
\* holds a strong reference
RecorderCall(pc, item, id, held) == [pc |-> pc, item |-> item, id |-> id, held |-> held]

\* an upgrade that takes no strong reference
Recorder_upgraded_unheld(self, a) == self

\* Weak::upgrade of the object a: one more strong reference
Recorder_upgraded(self, a) == arc_replaced(self, a, [a EXCEPT !.strong = @ + 1])

\* the items with the call's item put in
items_put(items, item) ==
    IF item.type = "Write" THEN items_write(items, item.data)
    ELSE items_set_win_size(items, item.width, item.height)

\* the body of the `if let Some(inner)`, under the lock
Recorder_locked_put(self, call) ==
    IF \E a \in self.arcs : a.id = call.id
    THEN arc_replaced(self, CHOOSE a \in self.arcs : a.id = call.id,
             [(CHOOSE a \in self.arcs : a.id = call.id) EXCEPT
                 !.recording.items = items_put(@, call.item)])
    ELSE self

\* a run of Drop for RecordingHandleInner on the object a: the json it
\* formats to the file at path, and whether the file could be written
Flush(a, log, saved) ==
    [id |-> a.id, path |-> a.path, file |-> Recording_to_json(a.recording),
     recording |-> a.recording, log |-> log, saved |-> saved]

\* no Recorder call is running
RecorderCall_new == RecorderCall("returned", RecordingItem_Write(<<>>), 0, FALSE)

\* ReplayTermieGui::new, with an emulator that has been given nothing
ReplayTermieGui_new == [slider_pos |-> 0, applied |-> <<>>]

----------------------------------------------------------------------------
(* gui/mod.rs: ReplayTermieGui. g holds replay_control, slider_pos and     *)
(* applied, the bytes and resizes its TerminalEmulator has been given.     *)

ReplayTermieGui(control, slider_pos, applied) ==
    [control |-> control, slider_pos |-> slider_pos, applied |-> applied]

\* step_replay once next has answered: a Resize goes to the emulator
step_replay_action(g, r) ==
    ReplayTermieGui(r.self, g.slider_pos,
        IF r.ret.action = "Resize"
        THEN Append(g.applied, RecordingAction_SetWinSize(r.ret.width, r.ret.height))
        ELSE g.applied)

\* ReplayTermieGui::step_replay
step_replay(g) == step_replay_action(g, ReplayControl_next(g.control))

\* `for _ in current_pos..self.slider_pos { self.step_replay(); }`
RECURSIVE step_replay_times(_, _)
step_replay_times(g, n) ==
    IF n <= 0 THEN g ELSE step_replay_times(step_replay(g), n - 1)

\* ReplayTermieGui::reload_replay, the recording loading again
reload_replay(g) ==
    ReplayTermieGui(ReplayControl_new(g.control.recording), g.slider_pos, <<>>)

\* update_replay_pos from the loop on
update_replay_pos_forwards(g, clicked) ==
    IF clicked
    THEN step_replay(step_replay_times(g, g.slider_pos - current_pos(g.control)))
    ELSE step_replay_times(g, g.slider_pos - current_pos(g.control))

\* update_replay_pos up to its last statement
update_replay_pos_moved(g, clicked) ==
    IF current_pos(g.control) > g.slider_pos
    THEN update_replay_pos_forwards(reload_replay(g), clicked)
    ELSE update_replay_pos_forwards(g, clicked)

\* ReplayTermieGui::update_replay_pos
update_replay_pos(g, clicked, changed) ==
    IF ~clicked /\ ~changed THEN g
    ELSE [update_replay_pos_moved(g, clicked) EXCEPT
             !.slider_pos = current_pos(update_replay_pos_moved(g, clicked).control)]

\* TerminalWidget::show: terminal_emulator.read() takes what the channel
\* holds, into a buffer that has room for it
show(g) ==
    ReplayTermieGui([g.control EXCEPT !.tx = <<>>], g.slider_pos,
        g.applied \o [i \in 1..Len(g.control.tx) |->
                         RecordingAction_Write(g.control.tx[i])])

\* ReplayTermieGui::update with the slider at slider_pos and the button
\* clicked or not
ReplayTermieGui_update(g, slider_pos, clicked) ==
    show(update_replay_pos([g EXCEPT !.slider_pos = slider_pos],
                           clicked, slider_pos # g.slider_pos))

----------------------------------------------------------------------------
(* The parts of the state a run leaves alone stay as constructed *)

FtIdle == color_info = FormatTracker_new

EmuIdle ==
    /\ terminal_buffer = TerminalBuffer_new
    /\ cursor_state = CursorState_new
    /\ decckm_mode = FALSE
    /\ sent = <<>>
    /\ steps = 0

Buf2Idle ==
    /\ visible_buf = VisibleBuffer_new(1, 1)
    /\ scrollback = <<>>
    /\ buf2_cursor = CursorPos(0, 0)
    /\ calls = 0

WriteIdle == write_call = WriteCall_new

ReplayIdle ==
    /\ replay_control = ReplayControl_new(Recording_new)
    /\ replay_hist = ReplayHist_new

RecorderIdle ==
    /\ recorder = Recorder_new
    /\ recording_dir = {}
    /\ recorder_hist = RecorderHist_new

ThreadIdle ==
    /\ recorder_call = RecorderCall_new
    /\ flushed = <<>>

GuiIdle == replay_gui = ReplayTermieGui_new

IoIdle == WriteIdle /\ ReplayIdle /\ RecorderIdle /\ ThreadIdle /\ GuiIdle

ParserIdle ==
    /\ parser = AnsiParser_new
    /\ in_push = FALSE
    /\ output = <<>>
    /\ data_output = <<>>
    /\ fed = <<>>
    /\ emitted = <<>>

----------------------------------------------------------------------------
(* The tracker driven by arbitrary calls *)

\* The invariants of the FormatTracker data model: sorted by start, adjacent
\* tags meet, the first starts at 0 and the last ends at the sentinel
TagsContiguous(ts) ==
    /\ Len(ts) >= 1
    /\ ts[1].start = 0
    /\ ts[Len(ts)].end = usize_MAX
    /\ \A i \in 1..(Len(ts) - 1) :
          ts[i].start <= ts[i + 1].start /\ ts[i].end = ts[i + 1].start

\* A call is made on a tracker that meets its invariants: what a later call does
\* to a tracker an earlier call has already broken is not followed.
FtCallable == ~panicked /\ TagsContiguous(color_info)

FtPos == 0..MaxPos \cup {usize_MAX}
FtRanges == {r \in [start : FtPos, end : FtPos] : r.start <= r.end}
\* the cursor states offered: <<color, bold>>
FtFormats == {<<"Default", FALSE>>, <<"Red", TRUE>>}

FtInit ==
    /\ FtIdle
    /\ overflow_checks \in BOOLEAN
    /\ panicked = FALSE
    /\ ParserIdle
    /\ EmuIdle
    /\ Buf2Idle
    /\ IoIdle

FtFrame == UNCHANGED <<overflow_checks, parserVars, emuVars, steps, buf2Vars, ioVars>>

\* the thread panics: the tracker is left as it was and nothing runs again
Panic(v) == panicked' = TRUE /\ UNCHANGED v

\* the cap on the tag boundaries the model follows
FtWithinBounds(ts) ==
    \A i \in 1..Len(ts) :
        /\ ts[i].start <= MaxIndex \/ ts[i].start = usize_MAX
        /\ ts[i].end <= MaxIndex \/ ts[i].end = usize_MAX

FtPushRange ==
    /\ FtCallable
    /\ Len(color_info) < MaxTags
    /\ \E range \in FtRanges, cursor \in FtFormats :
          LET res == push_range(color_info, cursor[1], cursor[2], range)
          IN  IF res.panic THEN Panic(ftVars)
              ELSE color_info' = res.tags /\ UNCHANGED panicked
    /\ FtFrame

FtDeleteRange ==
    /\ FtCallable
    /\ \E range \in FtRanges :
          LET res == delete_range(color_info, range)
          IN  FtWithinBounds(res.tags) /\
              IF res.panic \/ (res.overflow /\ overflow_checks) THEN Panic(ftVars)
              ELSE color_info' = res.tags /\ UNCHANGED panicked
    /\ FtFrame

FtPushRangeAdjustment ==
    /\ FtCallable
    /\ \E range \in FtRanges :
          LET res == push_range_adjustment(color_info, range)
          IN  FtWithinBounds(res.tags) /\
              IF res.overflow /\ overflow_checks THEN Panic(ftVars)
              ELSE color_info' = res.tags /\ UNCHANGED panicked
    /\ FtFrame

FtNext == FtPushRange \/ FtDeleteRange \/ FtPushRangeAdjustment

SpecFormatTracker == FtInit /\ [][FtNext]_vars

\* The FormatTracker of mod.rs: its only mutators are push_range and
\* delete_range
FtModNext == FtPushRange \/ FtDeleteRange

SpecModFormatTracker == FtInit /\ [][FtModNext]_vars

----------------------------------------------------------------------------
(* The parser fed arbitrary bytes in arbitrary chunks *)

MaxFed == 4

\* the bytes offered: ESC, '[', a parameter digit, an intermediate (space),
\* the final bytes 'm' and 'a', and '\n' (a control byte, invalid inside CSI)
ParserBytes == {27, 91, 49, 32, 109, 97, 10}

ParserInit ==
    /\ ParserIdle
    /\ FtIdle
    /\ EmuIdle
    /\ Buf2Idle
    /\ overflow_checks = TRUE
    /\ panicked = FALSE
    /\ IoIdle

ParserFrame ==
    UNCHANGED <<color_info, overflow_checks, emuVars, steps, buf2Vars, ioVars>>

\* a push that starts every call from the Empty state
ParserBeginPush_StateDropped ==
    /\ ~panicked /\ ~in_push
    /\ in_push' = TRUE
    /\ output' = <<>>
    /\ data_output' = <<>>
    /\ parser' = InnerEmpty
    /\ UNCHANGED <<fed, emitted, panicked>>
    /\ ParserFrame

\* push is called: the locals output and data_output start empty
ParserBeginPush ==
    /\ ~panicked /\ ~in_push
    /\ in_push' = TRUE
    /\ output' = <<>>
    /\ data_output' = <<>>
    /\ UNCHANGED <<parser, fed, emitted, panicked>>
    /\ ParserFrame

\* one turn of the loop `for b in incoming`
ParserPushByte ==
    /\ ~panicked /\ in_push
    /\ Len(fed) < MaxFed
    /\ \E b \in ParserBytes :
          LET l == push_byte([inner |-> parser, output |-> output,
                              data_output |-> data_output, panic |-> FALSE], b)
          IN  /\ fed' = Append(fed, b)
              /\ IF l.panic
                 THEN panicked' = TRUE
                      /\ UNCHANGED <<parser, output, data_output>>
                 ELSE /\ parser' = l.inner
                      /\ output' = l.output
                      /\ data_output' = l.data_output
                      /\ UNCHANGED panicked
    /\ UNCHANGED <<in_push, emitted>>
    /\ ParserFrame

\* incoming is used up: the pending bytes are flushed and output is returned
ParserEndPush ==
    /\ ~panicked /\ in_push
    /\ in_push' = FALSE
    /\ output' = push_data_if_non_empty(data_output, output)
    /\ data_output' = <<>>
    /\ emitted' = emitted \o push_data_if_non_empty(data_output, output)
    /\ UNCHANGED <<parser, fed, panicked>>
    /\ ParserFrame

ParserNext == ParserBeginPush \/ ParserPushByte \/ ParserEndPush

SpecParser == ParserInit /\ [][ParserNext]_vars

----------------------------------------------------------------------------
(* The emulator handed arbitrary ops by its parser, and key presses *)

EmuWidth == 3
EmuHeight == 2
MaxBuf == 5
MaxCursor == 3
MaxCoord == 2
MaxOps == 6

\* the segments offered to the match of TerminalEmulator::read
EmuDataSet == {<<97>>, <<98, 98>>}
EmuCoords == {Some(n) : n \in 0..MaxCoord}
EmuSetCursorPosSet ==
    {Op("SetCursorPos", x, y, <<>>, "") : x \in EmuCoords, y \in EmuCoords \cup {None}}
EmuSgrSet == {from_usize(n) : n \in {0, 1, 31, 91}}
EmuModeParams == {<<63, 49>>, <<63, 50>>, <<49>>}
EmuDeleteSet == {OpN("Delete", n) : n \in 0..MaxCoord}
EmuInputs == {TerminalInput("ArrowUp", 0), TerminalInput("End", 0)}

EmuInit ==
    /\ EmuIdle
    /\ FtIdle
    /\ ParserIdle
    /\ Buf2Idle
    /\ overflow_checks \in BOOLEAN
    /\ panicked = FALSE
    /\ IoIdle

\* read and write are called while the thread lives; the model follows the
\* first MaxOps segments and key presses
EmuReady == ~panicked /\ steps < MaxOps

EmuFrame ==
    steps' = steps + 1 /\ UNCHANGED <<overflow_checks, parserVars, buf2Vars, ioVars>>

\* the thread panics inside read
EmuPanic == panicked' = TRUE /\ UNCHANGED <<emuVars, color_info>>

\* the cap on the buffer length and the cursor coordinates the model follows
EmuPosWithin(pos) ==
    /\ pos.x <= MaxCursor \/ pos.x = usize_MAX
    /\ pos.y <= MaxCursor \/ pos.y = usize_MAX

\* TerminalOutput::Data(data): the tracker gets the written range, the cursor
\* the new position
EmuDataPushed(response, pushed) ==
    IF pushed.panic THEN EmuPanic
    ELSE /\ terminal_buffer' = response.buf
         /\ color_info' = pushed.tags
         /\ cursor_state' = [cursor_state EXCEPT !.pos = response.new_cursor_pos]
         /\ UNCHANGED <<decckm_mode, sent, panicked>>

EmuDataInserted(response) ==
    IF response.panic \/ (response.overflow /\ overflow_checks) THEN EmuPanic
    ELSE /\ EmuPosWithin(response.new_cursor_pos)
         /\ EmuDataPushed(response,
                push_range(color_info, cursor_state.color, cursor_state.bold,
                           response.written_range))

EmuDataPlanned(data, plan) ==
    IF plan.panic \/ (plan.overflow /\ overflow_checks) THEN EmuPanic
    ELSE /\ plan.size <= MaxBuf
         /\ EmuDataInserted(insert_data(terminal_buffer, EmuWidth, EmuHeight,
                                        cursor_state.pos, data))

EmuDataOp(data) ==
    /\ EmuReady
    /\ EmuDataPlanned(data, insert_data_plan(terminal_buffer, EmuWidth,
                                             EmuHeight, cursor_state.pos, data))
    /\ EmuFrame

EmuData == \E data \in EmuDataSet : EmuDataOp(data)

\* a SetCursorPos arm that takes the wire values as they are
EmuSetCursorPosOp_OneBased(segment) ==
    /\ EmuReady
    /\ cursor_state' = [cursor_state EXCEPT !.pos =
           CursorPos(unwrap_or(segment.x, cursor_state.pos.x),
                     unwrap_or(segment.y, cursor_state.pos.y))]
    /\ UNCHANGED <<terminal_buffer, color_info, decckm_mode, sent, panicked>>
    /\ EmuFrame

\* TerminalOutput::SetCursorPos { x, y }
EmuSetCursorPosOp(segment) ==
    /\ EmuReady
    /\ LET x == IF segment.x # None THEN wrapping_sub(segment.x[1], 1)
                ELSE cursor_state.pos.x
           y == IF segment.y # None THEN wrapping_sub(segment.y[1], 1)
                ELSE cursor_state.pos.y
           overflow == \/ segment.x # None /\ sub_overflows(segment.x[1], 1)
                       \/ segment.y # None /\ sub_overflows(segment.y[1], 1)
       IN  IF overflow /\ overflow_checks THEN EmuPanic
           ELSE /\ cursor_state' = [cursor_state EXCEPT !.pos = CursorPos(x, y)]
                /\ UNCHANGED <<terminal_buffer, color_info, decckm_mode,
                               sent, panicked>>
    /\ EmuFrame

EmuSetCursorPos == \E segment \in EmuSetCursorPosSet : EmuSetCursorPosOp(segment)

\* TerminalOutput::ClearForwards
EmuClearForwards ==
    /\ EmuReady
    /\ LET res == clear_forwards(terminal_buffer, EmuWidth, cursor_state.pos)
           pushed == push_range(color_info, cursor_state.color, cursor_state.bold,
                                Range(res.clear_pos, usize_MAX))
       IN  IF ~res.some
           THEN UNCHANGED <<emuVars, color_info, panicked>>
           ELSE IF (res.overflow /\ overflow_checks) \/ pushed.panic THEN EmuPanic
           ELSE /\ terminal_buffer' = res.buf
                /\ color_info' = pushed.tags
                /\ UNCHANGED <<cursor_state, decckm_mode, sent, panicked>>
    /\ EmuFrame

\* TerminalOutput::ClearAll
EmuClearAll ==
    /\ EmuReady
    /\ LET pushed == push_range(color_info, cursor_state.color, cursor_state.bold,
                                Range(0, usize_MAX))
       IN  IF pushed.panic THEN EmuPanic
           ELSE /\ color_info' = pushed.tags
                /\ terminal_buffer' = clear_all(terminal_buffer)
                /\ UNCHANGED <<cursor_state, decckm_mode, sent, panicked>>
    /\ EmuFrame

\* TerminalOutput::CarriageReturn
EmuCarriageReturn ==
    /\ EmuReady
    /\ cursor_state' = [cursor_state EXCEPT !.pos.x = 0]
    /\ UNCHANGED <<terminal_buffer, color_info, decckm_mode, sent, panicked>>
    /\ EmuFrame

\* TerminalOutput::Newline
EmuNewline ==
    /\ EmuReady
    /\ LET buf == append_newline_at_line_end(terminal_buffer, EmuWidth,
                                             cursor_state.pos)
           y == wrapping_add(cursor_state.pos.y, 1)
       IN  /\ Len(buf) <= MaxBuf
           /\ IF add_overflows(cursor_state.pos.y, 1) /\ overflow_checks
              THEN EmuPanic
              ELSE /\ EmuPosWithin(CursorPos(cursor_state.pos.x, y))
                   /\ terminal_buffer' = buf
                   /\ cursor_state' = [cursor_state EXCEPT !.pos.y = y]
                   /\ UNCHANGED <<color_info, decckm_mode, sent, panicked>>
    /\ EmuFrame

\* TerminalOutput::Backspace
EmuBackspace ==
    /\ EmuReady
    /\ LET x == IF cursor_state.pos.x >= 1 THEN cursor_state.pos.x - 1
                ELSE cursor_state.pos.x
       IN  /\ EmuPosWithin(CursorPos(x, cursor_state.pos.y))
           /\ cursor_state' = [cursor_state EXCEPT !.pos.x = x]
    /\ UNCHANGED <<terminal_buffer, color_info, decckm_mode, sent, panicked>>
    /\ EmuFrame

\* TerminalOutput::Delete(num_chars)
EmuDeleteTracked(res, deleted) ==
    IF deleted.panic \/ (deleted.overflow /\ overflow_checks) THEN EmuPanic
    ELSE /\ terminal_buffer' = res.buf
         /\ color_info' = deleted.tags
         /\ UNCHANGED <<cursor_state, decckm_mode, sent, panicked>>

EmuDeleted(res) ==
    IF res.panic \/ (res.overflow /\ overflow_checks) THEN EmuPanic
    ELSE IF ~res.some THEN UNCHANGED <<emuVars, color_info, panicked>>
    ELSE EmuDeleteTracked(res, delete_range(color_info, res.range))

EmuDelete ==
    /\ EmuReady
    /\ \E segment \in EmuDeleteSet :
          EmuDeleted(delete_forwards(terminal_buffer, EmuWidth, EmuHeight,
                                     cursor_state.pos, segment.x[1]))
    /\ EmuFrame

\* TerminalOutput::Sgr(sgr)
EmuSgrOp(segment) ==
    /\ EmuReady
    /\ cursor_state' = apply_sgr(cursor_state, segment.kind)
    /\ UNCHANGED <<terminal_buffer, color_info, decckm_mode, sent, panicked>>
    /\ EmuFrame

EmuSgr == \E segment \in EmuSgrSet : EmuSgrOp(segment)

\* TerminalOutput::SetMode(mode)
EmuSetModeOp(segment) ==
    /\ EmuReady
    /\ decckm_mode' = IF segment.kind = "Decckm" THEN TRUE ELSE decckm_mode
    /\ UNCHANGED <<terminal_buffer, color_info, cursor_state, sent, panicked>>
    /\ EmuFrame

EmuSetMode ==
    \E params \in EmuModeParams : EmuSetModeOp(mode_from_params("SetMode", params))

\* TerminalOutput::ResetMode(mode)
EmuResetModeOp(segment) ==
    /\ EmuReady
    /\ decckm_mode' = IF segment.kind = "Decckm" THEN FALSE ELSE decckm_mode
    /\ UNCHANGED <<terminal_buffer, color_info, cursor_state, sent, panicked>>
    /\ EmuFrame

EmuResetMode ==
    \E params \in EmuModeParams :
        EmuResetModeOp(mode_from_params("ResetMode", params))

\* TerminalOutput::Invalid
EmuInvalid ==
    /\ EmuReady
    /\ UNCHANGED <<emuVars, color_info, panicked>>
    /\ EmuFrame

\* TerminalEmulator::write: every byte of the payload reaches the fd
EmuWriteOp(to_write) ==
    /\ EmuReady
    /\ sent' = to_payload(to_write, decckm_mode)
    /\ UNCHANGED <<terminal_buffer, color_info, cursor_state, decckm_mode, panicked>>
    /\ EmuFrame

EmuWrite == \E to_write \in EmuInputs : EmuWriteOp(to_write)

EmuNext ==
    \/ EmuData \/ EmuSetCursorPos \/ EmuClearForwards \/ EmuClearAll
    \/ EmuCarriageReturn \/ EmuNewline \/ EmuBackspace \/ EmuDelete
    \/ EmuSgr \/ EmuSetMode \/ EmuResetMode \/ EmuInvalid \/ EmuWrite

SpecEmu == EmuInit /\ [][EmuNext]_vars

\* the emulator handed Sgr and Data ops only
SgrDataNext == EmuSgr \/ EmuData

SpecSgrData == EmuInit /\ [][SgrDataNext]_vars

----------------------------------------------------------------------------
(* TerminalEmulator::write against an fd that takes, at each               *)
(* nix::unistd::write, any number of the bytes offered, none included. An  *)
(* Err from the fd, which the unwrap() turns into a panic, is not among    *)
(* the results followed here.                                              *)

MaxWrites == 2

WriteInputs ==
    {TerminalInput("Ascii", 97), TerminalInput("Ctrl", 99), TerminalInput("Enter", 0),
     TerminalInput("Backspace", 0), TerminalInput("ArrowUp", 0),
     TerminalInput("Home", 0)}

WriteInit ==
    /\ write_call = WriteCall_new
    /\ decckm_mode \in BOOLEAN
    /\ terminal_buffer = TerminalBuffer_new
    /\ cursor_state = CursorState_new
    /\ sent = <<>>
    /\ steps = 0
    /\ overflow_checks \in BOOLEAN
    /\ panicked = FALSE
    /\ FtIdle
    /\ ParserIdle
    /\ Buf2Idle
    /\ ReplayIdle
    /\ RecorderIdle
    /\ ThreadIdle
    /\ GuiIdle

WriteFrame ==
    UNCHANGED <<color_info, overflow_checks, panicked, parserVars, emuVars,
                buf2Vars, replayVars, recorderVars, threadVars, guiVars>>

\* write is called: to_payload and the match
WriteBegin ==
    /\ write_call.pc = "returned"
    /\ steps < MaxWrites
    /\ \E to_write \in WriteInputs :
           write_call' = write_entered(to_write, to_payload(to_write, decckm_mode))
    /\ steps' = steps + 1
    /\ WriteFrame

\* the fd takes at least one byte
WriteAccepted ==
    /\ write_call.pc # "returned"
    /\ \E written \in 1..Len(write_call.to_write) :
           write_call' = write_pass(write_call, written)
    /\ UNCHANGED steps
    /\ WriteFrame

\* the fd takes nothing
WriteRefused ==
    /\ write_call.pc # "returned"
    /\ write_call' = write_pass(write_call, 0)
    /\ UNCHANGED steps
    /\ WriteFrame

WriteNext == WriteBegin \/ WriteAccepted \/ WriteRefused

SpecWrite == WriteInit /\ [][WriteNext]_vars

\* the fd takes a non-zero number of bytes again and again
SpecWriteFair == SpecWrite /\ WF_vars(WriteAccepted)

----------------------------------------------------------------------------
(* A ReplayControl over a recording, stepped with next while the ReplayIo  *)
(* reads the channel: SpecReplay                                           *)

MaxItems == 3
MaxNexts == 8
MaxReadBuf == 2

ReplayItems ==
    {RecordingItem_Write(<<>>), RecordingItem_Write(<<97>>),
     RecordingItem_Write(<<98, 99>>), RecordingItem_SetWinSize(2, 1)}

ReplayRecordings ==
    {Recording({}, items) : items \in UNION {[1..n -> ReplayItems] : n \in 0..MaxItems}}

ReplayInit ==
    /\ \E recording \in ReplayRecordings : replay_control = ReplayControl_new(recording)
    /\ replay_hist = ReplayHist_new
    /\ overflow_checks \in BOOLEAN
    /\ panicked = FALSE
    /\ FtIdle
    /\ ParserIdle
    /\ EmuIdle
    /\ Buf2Idle
    /\ WriteIdle
    /\ RecorderIdle
    /\ ThreadIdle
    /\ GuiIdle

ReplayFrame ==
    UNCHANGED <<color_info, overflow_checks, panicked, parserVars, emuVars, steps,
                buf2Vars, writeVars, recorderVars, threadVars, guiVars>>

\* what a call of next did: the bytes it queued and the resize it returned
performed_by(r) ==
    [i \in 1..Len(r.sent) |-> RecordingAction_Write(r.sent[i])]
    \o (IF r.ret.action = "Resize"
        THEN <<RecordingAction_SetWinSize(r.ret.width, r.ret.height)>> ELSE <<>>)

\* replay_control.next()
ReplayNext ==
    /\ replay_hist.nexts < MaxNexts
    /\ replay_control' = ReplayControl_next(replay_control).self
    /\ replay_hist' =
           [nexts |-> replay_hist.nexts + 1,
            performed |-> replay_hist.performed
                              \o performed_by(ReplayControl_next(replay_control)),
            returned |-> ReplayControl_next(replay_control).ret,
            read |-> replay_hist.read]
    /\ ReplayFrame

\* ReplayIo::read
ReplayRead ==
    /\ \E buf_len \in 1..MaxReadBuf :
           /\ replay_control' =
                  [replay_control EXCEPT !.tx = ReplayIo_read(@, buf_len).rx]
           /\ replay_hist' =
                  [replay_hist EXCEPT !.read =
                      @ \o ReplayIo_read(replay_control.tx, buf_len).buf]
    /\ ReplayFrame

ReplayNextStep == ReplayNext \/ ReplayRead

SpecReplay == ReplayInit /\ [][ReplayNextStep]_vars

----------------------------------------------------------------------------
(* The replay window: the slider is dragged and the next button clicked,   *)
(* one update of the window each: SpecReplayGui. A recording with no       *)
(* action has no slider range and is left out.                             *)

MaxUpdates == 3

GuiInit ==
    /\ \E recording \in ReplayRecordings :
           /\ replay_control = ReplayControl_new(recording)
           /\ ReplayControl_len(replay_control) >= 1
    /\ replay_hist = ReplayHist_new
    /\ replay_gui = ReplayTermieGui_new
    /\ overflow_checks \in BOOLEAN
    /\ panicked = FALSE
    /\ FtIdle
    /\ ParserIdle
    /\ EmuIdle
    /\ Buf2Idle
    /\ WriteIdle
    /\ RecorderIdle
    /\ ThreadIdle

GuiFrame ==
    UNCHANGED <<color_info, overflow_checks, panicked, parserVars, emuVars,
                buf2Vars, writeVars, recorderVars, threadVars, replay_hist>>

GuiSelf == ReplayTermieGui(replay_control, replay_gui.slider_pos, replay_gui.applied)

GuiUpdated(g) ==
    /\ replay_control' = g.control
    /\ replay_gui' = [slider_pos |-> g.slider_pos, applied |-> g.applied]
    /\ steps' = steps + 1
    /\ GuiFrame

\* an update after the slider was dragged
GuiSeek ==
    /\ steps < MaxUpdates
    /\ \E slider_pos \in 0..(ReplayControl_len(replay_control) - 1) :
           /\ slider_pos # replay_gui.slider_pos
           /\ GuiUpdated(ReplayTermieGui_update(GuiSelf, slider_pos, FALSE))

\* an update after the next button was clicked
GuiNextClicked ==
    /\ steps < MaxUpdates
    /\ GuiUpdated(ReplayTermieGui_update(GuiSelf, replay_gui.slider_pos, TRUE))

GuiNext == GuiSeek \/ GuiNextClicked

SpecReplayGui == GuiInit /\ [][GuiNext]_vars

----------------------------------------------------------------------------
(* A Recorder whose owner starts recordings, snapshots into them, clones   *)
(* and drops their handles, while the emulator reports writes and resizes: *)
(* SpecRecorder                                                            *)

MaxRecordings == 2
MaxHandles == 2
MaxLog == 3

RecWriteData == {<<>>, <<97>>, <<98, 99>>}
RecWinSizes == {<<2, 1>>, <<3, 2>>}
SnapshotNames == {"format_tracker", "terminal_buffer"}

RecorderInit ==
    /\ recorder = Recorder_new
    /\ recording_dir \in {{}, {1}}
    /\ recorder_hist = RecorderHist_new
    /\ overflow_checks \in BOOLEAN
    /\ panicked = FALSE
    /\ FtIdle
    /\ ParserIdle
    /\ EmuIdle
    /\ Buf2Idle
    /\ WriteIdle
    /\ ReplayIdle
    /\ ThreadIdle
    /\ GuiIdle

RecorderFrame ==
    UNCHANGED <<color_info, overflow_checks, panicked, parserVars, emuVars, steps,
                buf2Vars, writeVars, replayVars, threadVars, guiVars>>

\* the handles of the object a that are neither the RecordingInitializer
\* nor the Arc a running Recorder call has upgraded to
handles(a) ==
    a.strong - (IF a.initializer THEN 1 ELSE 0)
             - (IF recorder_call.held /\ recorder_call.id = a.id THEN 1 ELSE 0)

\* recorder.start_recording()
RecStartRecording ==
    /\ upgrade(recorder) # None \/ recorder.next_id <= MaxRecordings
    /\ \A a \in recorder.arcs : a.strong < MaxHandles
    /\ \E dir_created \in BOOLEAN :
           /\ recorder' =
                  Recorder_start_recording(recorder, recording_dir, dir_created).self
           /\ recorder_hist' =
                  [log |-> IF Recorder_start_recording(recorder, recording_dir,
                                                       dir_created).response = "New"
                           THEN <<>> ELSE recorder_hist.log,
                   last |-> Recorder_start_recording(recorder, recording_dir,
                                                     dir_created).response]
    /\ UNCHANGED recording_dir
    /\ RecorderFrame

\* initializer.snapshot_item(name, item)
RecSnapshotItem ==
    /\ \E a \in recorder.arcs, name \in SnapshotNames :
           /\ a.initializer
           /\ recorder' = snapshot_item(recorder, a, name)
    /\ UNCHANGED <<recording_dir, recorder_hist>>
    /\ RecorderFrame

\* initializer.into_handle()
RecIntoHandle ==
    /\ \E a \in recorder.arcs :
           /\ a.initializer
           /\ recorder' = into_handle(recorder, a)
    /\ UNCHANGED <<recording_dir, recorder_hist>>
    /\ RecorderFrame

\* handle.clone()
RecCloneHandle ==
    /\ \E a \in recorder.arcs :
           /\ handles(a) >= 1
           /\ a.strong < MaxHandles
           /\ recorder' = RecordingHandle_clone(recorder, a)
    /\ UNCHANGED <<recording_dir, recorder_hist>>
    /\ RecorderFrame

\* a RecordingHandle or the RecordingInitializer goes out of scope; the
\* last one saves the recording, which the file system may refuse, and
\* ends the log of the calls made to it
RecDropHandle ==
    /\ \E a \in recorder.arcs, is_initializer \in BOOLEAN, saved \in BOOLEAN :
           /\ IF is_initializer THEN a.initializer ELSE handles(a) >= 1
           /\ recorder' = handle_dropped(recorder, a, is_initializer)
           /\ recording_dir' =
                  IF a.strong = 1 THEN RecordingHandleInner_drop(recording_dir, a, saved)
                  ELSE recording_dir
           /\ recorder_hist' =
                  [recorder_hist EXCEPT !.log = IF a.strong = 1 THEN <<>> ELSE @]
    /\ RecorderFrame

\* the bytes of a write, as the log keeps them
written_atoms(to_insert) ==
    [i \in 1..Len(to_insert) |-> RecordingAction_Write(to_insert[i])]

\* recorder.write(to_insert)
RecWrite ==
    /\ \E to_insert \in RecWriteData :
           /\ Len(recorder_hist.log) + Len(to_insert) <= MaxLog
           /\ recorder' = Recorder_write(recorder, to_insert)
           /\ recorder_hist' =
                  [recorder_hist EXCEPT !.log =
                      IF upgrade(recorder) = None THEN @
                      ELSE @ \o written_atoms(to_insert)]
    /\ UNCHANGED recording_dir
    /\ RecorderFrame

\* recorder.set_win_size(width, height)
RecSetWinSize ==
    /\ Len(recorder_hist.log) < MaxLog
    /\ \E size \in RecWinSizes :
           /\ recorder' = Recorder_set_win_size(recorder, size[1], size[2])
           /\ recorder_hist' =
                  [recorder_hist EXCEPT !.log =
                      IF upgrade(recorder) = None THEN @
                      ELSE Append(@, RecordingAction_SetWinSize(size[1], size[2]))]
    /\ UNCHANGED recording_dir
    /\ RecorderFrame

RecorderNext ==
    \/ RecStartRecording
    \/ RecSnapshotItem
    \/ RecIntoHandle
    \/ RecCloneHandle
    \/ RecDropHandle
    \/ RecWrite
    \/ RecSetWinSize

SpecRecorder == RecorderInit /\ [][RecorderNext]_vars

----------------------------------------------------------------------------
(* The Recorder with its write and set_win_size calls running on the       *)
(* emulator thread, step by step, while the front-end thread snapshots,    *)
(* clones and drops handles: SpecRecorderThreads                           *)

ThreadItems == {RecordingItem_Write(<<98, 99>>), RecordingItem_SetWinSize(2, 1)}

ThreadInit == RecorderInit /\ recording_dir = {}

\* the calls of the item, as the log keeps them
logged_atoms(item) ==
    IF item.type = "Write" THEN written_atoms(item.data)
    ELSE <<RecordingAction_SetWinSize(item.width, item.height)>>

\* start_recording needs the Recorder to itself
ThrStartRecording == recorder_call.pc = "returned" /\ RecStartRecording

\* snapshot_item takes the lock
ThrSnapshotItem == recorder_call.pc # "locked" /\ RecSnapshotItem

ThrIntoHandle == RecIntoHandle

ThrCloneHandle == RecCloneHandle

ThreadFrame ==
    UNCHANGED <<color_info, overflow_checks, panicked, parserVars, emuVars, steps,
                buf2Vars, writeVars, replayVars, guiVars>>

\* the front-end thread drops a RecordingHandle or the RecordingInitializer
ThrDropHandle ==
    /\ \E a \in recorder.arcs, is_initializer \in BOOLEAN, saved \in BOOLEAN :
           /\ IF is_initializer THEN a.initializer ELSE handles(a) >= 1
           /\ recorder' = handle_dropped(recorder, a, is_initializer)
           /\ recording_dir' =
                  IF a.strong = 1 THEN RecordingHandleInner_drop(recording_dir, a, saved)
                  ELSE recording_dir
           /\ flushed' =
                  IF a.strong = 1
                  THEN Append(flushed, Flush(a, recorder_hist.log, saved))
                  ELSE flushed
    /\ UNCHANGED <<recorder_hist, recorder_call>>
    /\ ThreadFrame

\* write or set_win_size is called and upgrades the Weak
ThrUpgrade ==
    /\ recorder_call.pc = "returned"
    /\ \E item \in ThreadItems :
           /\ Len(recorder_hist.log) + Len(logged_atoms(item)) <= MaxLog
           /\ IF upgrade(recorder) = None
              THEN UNCHANGED <<recorder, recorder_call, recorder_hist>>
              ELSE /\ recorder' = Recorder_upgraded(recorder, upgrade(recorder)[1])
                   /\ recorder_call' =
                          RecorderCall("upgraded", item, upgrade(recorder)[1].id,
                                       recorder' # recorder)
                   /\ recorder_hist' =
                          [recorder_hist EXCEPT !.log = @ \o logged_atoms(item)]
    /\ UNCHANGED <<recording_dir, flushed>>
    /\ ThreadFrame

\* the call locks the mutex and changes the items
ThrLockedPut ==
    /\ recorder_call.pc = "upgraded"
    /\ recorder' = Recorder_locked_put(recorder, recorder_call)
    /\ recorder_call' = [recorder_call EXCEPT !.pc = "locked"]
    /\ UNCHANGED <<recording_dir, recorder_hist, flushed>>
    /\ ThreadFrame

\* the MutexGuard is dropped
ThrUnlock ==
    /\ recorder_call.pc = "locked"
    /\ recorder_call' = [recorder_call EXCEPT !.pc = "unlocked"]
    /\ UNCHANGED <<recorder, recording_dir, recorder_hist, flushed>>
    /\ ThreadFrame

\* the upgraded Arc is dropped and the call returns
ThrReturn ==
    /\ recorder_call.pc = "unlocked"
    /\ recorder_call' = RecorderCall_new
    /\ IF recorder_call.held
       THEN \E a \in recorder.arcs, saved \in BOOLEAN :
               /\ a.id = recorder_call.id
               /\ recorder' = handle_dropped(recorder, a, FALSE)
               /\ recording_dir' =
                      IF a.strong = 1
                      THEN RecordingHandleInner_drop(recording_dir, a, saved)
                      ELSE recording_dir
               /\ flushed' =
                      IF a.strong = 1
                      THEN Append(flushed, Flush(a, recorder_hist.log, saved))
                      ELSE flushed
       ELSE UNCHANGED <<recorder, recording_dir, flushed>>
    /\ UNCHANGED recorder_hist
    /\ ThreadFrame

ThreadNext ==
    \/ ThrStartRecording
    \/ ThrSnapshotItem
    \/ ThrIntoHandle
    \/ ThrCloneHandle
    \/ ThrDropHandle
    \/ ThrUpgrade
    \/ ThrLockedPut
    \/ ThrUnlock
    \/ ThrReturn

SpecRecorderThreads == ThreadInit /\ [][ThreadNext]_vars

----------------------------------------------------------------------------
(* TerminalBuffer2 under a caller that hands every call a cursor inside    *)
(* the window and keeps the cursor the call returns.                       *)

MaxWidth == 2
MaxHeight == 2
MaxCount == 2
MaxScrollback == 4
MaxCalls == 4

Buf2DataSet == {<<97>>, <<10>>, <<98, 98, 98>>}
Buf2Counts == 0..MaxCount
Buf2Cursors ==
    {CursorPos(x, y) : x \in 0..(visible_buf.width - 1),
                       y \in 0..(visible_buf.height - 1)}

Buf2Self == TerminalBuffer2(visible_buf, scrollback)

Buf2Init ==
    /\ \E width \in 1..MaxWidth, height \in 1..MaxHeight :
           visible_buf = VisibleBuffer_new(width, height)
    /\ scrollback = <<>>
    /\ buf2_cursor = CursorPos(0, 0)
    /\ calls = 0
    /\ overflow_checks \in BOOLEAN
    /\ panicked = FALSE
    /\ FtIdle
    /\ ParserIdle
    /\ EmuIdle
    /\ IoIdle

Buf2Ready == ~panicked /\ calls < MaxCalls

Buf2Frame ==
    /\ calls' = calls + 1
    /\ UNCHANGED <<color_info, overflow_checks, parserVars, emuVars, steps, ioVars>>

Buf2Panic ==
    /\ panicked' = TRUE
    /\ UNCHANGED <<visible_buf, scrollback, buf2_cursor>>

\* the buffer after a call that returned, with the cursor the caller keeps
Buf2Returned(self, cursor) ==
    /\ Len(self.scrollback) <= MaxScrollback
    /\ visible_buf' = self.visible_buf
    /\ scrollback' = self.scrollback
    /\ buf2_cursor' = cursor
    /\ UNCHANGED panicked

Buf2Outcome(r) ==
    IF r.panic THEN Buf2Panic ELSE Buf2Returned(r.self, r.response.new_cursor_pos)

Buf2InsertDataOp(cursor, data) ==
    /\ Buf2Ready
    /\ Buf2Outcome(buf2_insert_data(Buf2Self, cursor, data))
    /\ Buf2Frame

Buf2InsertData ==
    \E cursor \in Buf2Cursors, data \in Buf2DataSet : Buf2InsertDataOp(cursor, data)

Buf2InsertSpaces ==
    \E cursor \in Buf2Cursors, num_spaces \in Buf2Counts :
        /\ Buf2Ready
        /\ IF overflow_checks /\ buf2_insert_spaces_overflows(Buf2Self, cursor)
           THEN Buf2Panic
           ELSE Buf2Returned(buf2_insert_spaces(Buf2Self, cursor, num_spaces), cursor)
        /\ Buf2Frame

Buf2InsertLines ==
    \E cursor \in Buf2Cursors, num_lines \in Buf2Counts :
        /\ Buf2Ready
        /\ IF overflow_checks /\ buf2_insert_lines_overflows(Buf2Self, cursor, num_lines)
           THEN Buf2Panic
           ELSE Buf2Returned(buf2_insert_lines(Buf2Self, cursor, num_lines), cursor)
        /\ Buf2Frame

Buf2ClearForwards ==
    \E cursor \in Buf2Cursors :
        /\ Buf2Ready
        /\ Buf2Returned(buf2_clear_forwards(Buf2Self, cursor), cursor)
        /\ Buf2Frame

Buf2ClearLineForwards ==
    \E cursor \in Buf2Cursors :
        /\ Buf2Ready
        /\ Buf2Returned(buf2_clear_line_forwards(Buf2Self, cursor), cursor)
        /\ Buf2Frame

Buf2ClearAll ==
    /\ Buf2Ready
    /\ Buf2Returned(buf2_clear_all(Buf2Self), buf2_cursor)
    /\ Buf2Frame

Buf2DeleteForwards ==
    \E cursor \in Buf2Cursors, num_chars \in Buf2Counts :
        /\ Buf2Ready
        /\ Buf2Returned(buf2_delete_forwards(Buf2Self, cursor, num_chars), cursor)
        /\ Buf2Frame

Buf2SetWinSizeOp(width, height, cursor) ==
    /\ Buf2Ready
    /\ Buf2Outcome(set_win_size(Buf2Self, width, height, cursor))
    /\ Buf2Frame

Buf2SetWinSize ==
    \E width \in 1..MaxWidth, height \in 1..MaxHeight, cursor \in Buf2Cursors :
        Buf2SetWinSizeOp(width, height, cursor)

Buf2Next ==
    \/ Buf2InsertData
    \/ Buf2InsertSpaces
    \/ Buf2InsertLines
    \/ Buf2ClearForwards
    \/ Buf2ClearLineForwards
    \/ Buf2ClearAll
    \/ Buf2DeleteForwards
    \/ Buf2SetWinSize

SpecBuffer == Buf2Init /\ [][Buf2Next]_vars

----------------------------------------------------------------------------
(* C1: after new() and any sequence of push_range, push_range_adjustment   *)
(* and delete_range calls, with any ranges (empty ones and ones ending at  *)
(* the sentinel included), tags() is sorted by start, adjacent tags meet   *)
(* (t_i.end = t_{i+1}.start), the first tag starts at 0 and the last tag   *)
(* ends at usize::MAX.                                                     *)
C1_TrackerContiguity == ~panicked => TagsContiguous(tags)

----------------------------------------------------------------------------
(* C4: AnsiParser::push never panics on any bytes: CsiParser::push is never *)
(* called on a parser that is Finished or InvalidFinished, and after every  *)
(* byte consumed the parser is Empty, Escape, or Csi with a CsiParser that  *)
(* is in Params or Intermediates.                                           *)
C4_ParserNeverPanics ==
    /\ ~panicked
    /\ \/ parser.tag \in {"Empty", "Escape"}
       \/ parser.tag = "Csi" /\ parser.csi.state \in {"Params", "Intermediates"}

\* a control byte has just made an open CSI sequence invalid
C4_Witness ==
    /\ in_push /\ ~panicked
    /\ Len(fed) >= 3
    /\ fed[Len(fed) - 2] = 27 /\ fed[Len(fed) - 1] = 91 /\ fed[Len(fed)] = 10
    /\ Len(output) >= 1 /\ output[Len(output)].op = "Invalid"
    /\ parser = InnerEmpty

(* C5: the parser does not depend on how its input is cut into chunks: the  *)
(* ops of all the pushes made so far, with adjacent Data ops made one, are  *)
(* the ops of one push of all the bytes, and the parser is in the same state *)
C5_ChunkIndependence ==
    (~in_push /\ ~panicked) =>
        LET whole == AnsiParser_push(AnsiParser_new, fed)
        IN  /\ ~whole.panic
            /\ ConcatData(emitted) = ConcatData(whole.output)
            /\ parser = whole.inner

\* two pushes have cut a run of data bytes and a third has ended inside a
\* CSI sequence
C5_Witness ==
    /\ ~in_push /\ ~panicked
    /\ Len(emitted) = 2
    /\ emitted[1].op = "Data" /\ emitted[2].op = "Data"
    /\ parser.tag = "Csi"

\* CsiParser on its own over the bytes after ESC [, up to its final byte
RECURSIVE CsiRun(_, _)
CsiRun(p, s) ==
    IF s = <<>> \/ CsiParser_push_panics(p) THEN [parser |-> p, rest |-> s]
    ELSE CsiRun(CsiParser_push(p, Head(s)), Tail(s))

\* every op handed out so far, the current call's included
AllOps == IF in_push THEN emitted \o output ELSE emitted

(* C6: when a CSI sequence is invalid the parser consumes every byte up to  *)
(* and including the next final byte (0x40..0x7e), emits exactly one        *)
(* Invalid op, returns to Empty and emits no byte of the sequence as Data.  *)
C6_InvalidCsiConsumedToTerminator ==
    (Len(fed) >= 3 /\ fed[1] = 27 /\ fed[2] = 91) =>
        LET run == CsiRun(CsiParser_new, SubSeq(fed, 3, Len(fed)))
        IN  /\ run.parser.state = "Invalid" =>
                /\ data_output = <<>>
                /\ \A i \in 1..Len(AllOps) : AllOps[i].op # "Data"
            /\ (run.parser.state = "InvalidFinished" /\ run.rest = <<>>) =>
                /\ data_output = <<>>
                /\ AllOps = <<Op0("Invalid")>>
                /\ parser = InnerEmpty

----------------------------------------------------------------------------
(* C2: from a fresh emulator, after any sequence of parser ops the cursor   *)
(* satisfies 0 <= x < width and 0 <= y < height (so that every insert_data  *)
(* call is made with y <= height - 1).                                      *)
C2_CursorInBounds ==
    ~panicked => /\ cursor_state.pos.x < EmuWidth
                 /\ cursor_state.pos.y < EmuHeight

\* the format the tags give index p didn't change in this step
FormatKept(p) == FormatAt(color_info', p) = FormatAt(color_info, p)

\* a Data step that returned: where it wrote
C7_WrittenRange(data) ==
    insert_data(terminal_buffer, EmuWidth, EmuHeight, cursor_state.pos,
                data).written_range

C7_DataTagged(data, range) ==
    /\ range.end = range.start + Len(data)
    /\ \A p \in 0..(MaxBuf + 1) :
          IF range.start <= p /\ p < range.end
          THEN /\ FormatAt(color_info', p) = <<cursor_state.color, cursor_state.bold>>
               /\ terminal_buffer'[p + 1] = data[p - range.start + 1]
          ELSE FormatKept(p)

(* C7: every Data op tags the range it wrote with the colour and bold in    *)
(* effect when it is applied, and leaves the colour and bold of every index *)
(* outside that range as they were; an Sgr op changes no tag and no byte of *)
(* the buffer.                                                              *)
C7_DataTaggedWithCurrentFormat ==
    [][/\ \A data \in EmuDataSet :
            (EmuDataOp(data) /\ ~panicked') =>
                C7_DataTagged(data, C7_WrittenRange(data))
       /\ \A segment \in EmuSgrSet :
            EmuSgrOp(segment) => UNCHANGED <<color_info, terminal_buffer>>]_vars

\* red `a`, bold `bb`, reset `a`: one tag per run, then the open-ended tag
\* (the buffer ends with the newline the first write pushed for line 0)
C7_Witness ==
    /\ ~panicked
    /\ terminal_buffer = <<97, 98, 98, 97, 10>>
    /\ color_info = <<FormatTag(0, 1, "Red", FALSE), FormatTag(1, 3, "Red", TRUE),
                      FormatTag(3, 4, "Default", FALSE),
                      FormatTag(4, usize_MAX, "Default", FALSE)>>

\* the six cursor keys and the final byte of their escape sequences
CursorKeyLetter(kind) ==
    CASE kind = "ArrowUp" -> 65 [] kind = "ArrowDown" -> 66
      [] kind = "ArrowRight" -> 67 [] kind = "ArrowLeft" -> 68
      [] kind = "Home" -> 72 [] kind = "End" -> 70
CursorKeys == {"ArrowUp", "ArrowDown", "ArrowRight", "ArrowLeft", "Home", "End"}

(* C8: decckm starts false; a SetMode whose parameter bytes are exactly ?1  *)
(* makes it true, a ResetMode with ?1 makes it false, and nothing else      *)
(* changes it (mode ops with other parameter bytes included); a cursor key  *)
(* is written as ESC O <letter> when decckm is true, ESC [ <letter> when it *)
(* is false.                                                                *)
C8_DecckmFollowsModeOps ==
    /\ decckm_mode = FALSE
    /\ [][/\ EmuSetModeOp(mode_from_params("SetMode", <<63, 49>>))
               => decckm_mode' = TRUE
          /\ EmuResetModeOp(mode_from_params("ResetMode", <<63, 49>>))
               => decckm_mode' = FALSE
          /\ decckm_mode' # decckm_mode =>
               \/ EmuSetModeOp(mode_from_params("SetMode", <<63, 49>>))
               \/ EmuResetModeOp(mode_from_params("ResetMode", <<63, 49>>))
          /\ \A to_write \in EmuInputs :
               EmuWriteOp(to_write) =>
                   sent' = <<27, IF decckm_mode THEN 79 ELSE 91,
                             CursorKeyLetter(to_write.kind)>>]_vars
    /\ [](\A kind \in CursorKeys :
             to_payload(TerminalInput(kind, 0), decckm_mode)
                 = <<27, IF decckm_mode THEN 79 ELSE 91, CursorKeyLetter(kind)>>)

\* ?1 was set, then reset, then set again, and ArrowUp pressed
C8_Witness ==
    /\ ~panicked
    /\ decckm_mode = TRUE
    /\ sent = <<27, 79, 65>>
    /\ steps >= 4

----------------------------------------------------------------------------
\* C3: after any sequence of insert_data, insert_spaces, insert_lines,
\* clear_forwards, clear_line_forwards, clear_all, delete_forwards and
\* set_win_size calls made with a cursor inside the window, every visible
\* row stores at most width bytes, the grid holds exactly height rows, and
\* first_line_idx is below height.
C3_GridShape ==
    /\ Len(visible_buf.lines) = visible_buf.height
    /\ visible_buf.first_line_idx < visible_buf.height
    /\ \A y \in 0..(visible_buf.height - 1) :
           Len(Line_serialize(get_line(visible_buf, y))) <= visible_buf.width

C3_Witness ==
    /\ ~panicked
    /\ calls = MaxCalls
    /\ visible_buf.width = 2
    /\ visible_buf.height = 2
    /\ visible_buf.first_line_idx = 1
    /\ \A y \in 0..1 : Len(get_line(visible_buf, y).buf) = 2

\* what one eviction does: the scrollback gains the bytes of the top row and
\* a newline exactly when the flag of that row is set, every row moves up by
\* one as it is, and the last row is empty with its flag cleared
EvictionMovesTopRow(before, after) ==
    /\ after.scrollback =
           before.scrollback \o get_line(before.visible_buf, 0).buf
               \o (IF get_line(before.visible_buf, 0).newline THEN <<10>> ELSE <<>>)
    /\ after.visible_buf.height = before.visible_buf.height
    /\ after.visible_buf.width = before.visible_buf.width
    /\ \A i \in 0..(before.visible_buf.height - 2) :
           get_line(after.visible_buf, i) = get_line(before.visible_buf, i + 1)
    /\ get_line(after.visible_buf, before.visible_buf.height - 1) = Line(<<>>, FALSE)

EvictionsMoveTopRow(evictions) ==
    \A k \in 1..Len(evictions) :
        EvictionMovesTopRow(evictions[k].before, evictions[k].after)

\* C9: each eviction insert_data performs, called by the user of the buffer
\* or by set_win_size, appends to the scrollback exactly the bytes of the top
\* row, followed by one newline iff the newline flag of that row is set;
\* afterwards every former row i+1 is row i with bytes, length and flag
\* unchanged, and the new last row is empty with its flag cleared.
C9_EvictionMovesTopRow ==
    /\ \A cursor \in Buf2Cursors, data \in Buf2DataSet :
           EvictionsMoveTopRow(buf2_insert_data(Buf2Self, cursor, data).evictions)
    /\ \A width \in 1..MaxWidth, height \in 1..MaxHeight, cursor \in Buf2Cursors :
           EvictionsMoveTopRow(set_win_size(Buf2Self, width, height, cursor).evictions)

\* a row with its flag set has been evicted from a window of two rows, and
\* the rows below it have moved up
C9_Witness ==
    /\ ~panicked
    /\ visible_buf.height = 2
    /\ visible_buf.first_line_idx = 1
    /\ scrollback = <<97, 10>>
    /\ get_line(visible_buf, 0) = Line(<<98, 98>>, FALSE)
    /\ get_line(visible_buf, 1) = Line(<<98>>, FALSE)

NewlineFreeData == {<<>>, <<48>>, <<48, 49>>, <<48, 49, 50>>, <<48, 49, 50, 51>>}

\* the byte stored at column x of row y, if the row is that long
CellAt(vb, x, y) ==
    IF x < Len(get_line(vb, y).buf) THEN Some(get_line(vb, y).buf[x + 1]) ELSE None

\* insert_data of data at cursor stores byte i at the cell
\* ((x+i) mod w, y + (x+i) div w), evicts nothing and returns the cursor
\* ((x+n) mod w, y + (x+n) div w)
StoredCellByCell(self, cursor, data, r) ==
    /\ ~r.panic
    /\ r.evictions = <<>>
    /\ r.response.new_cursor_pos =
           CursorPos((cursor.x + Len(data)) % self.visible_buf.width,
                     cursor.y + ((cursor.x + Len(data)) \div self.visible_buf.width))
    /\ \A i \in 0..(Len(data) - 1) :
           CellAt(r.self.visible_buf,
                  (cursor.x + i) % self.visible_buf.width,
                  cursor.y + ((cursor.x + i) \div self.visible_buf.width))
               = Some(data[i + 1])

TenBytes == <<48, 49, 50, 51, 52, 53, 54, 55, 56, 57>>

TenBytesInFreshBuffer(r) ==
    /\ buf2_data(r.self).visible = Append(TenBytes, 10)
    /\ r.response.new_cursor_pos = CursorPos(0, 2)

\* C10: insert_data at cursor (x,y) of n newline-free bytes into a buffer of
\* width w and height h, when y + (x+n) div w <= h-1, evicts nothing, stores
\* byte i at cell ((x+i) mod w, y + (x+i) div w) and returns the cursor
\* ((x+n) mod w, y + (x+n) div w); 10 bytes at (0,0) in a fresh 5x5 buffer
\* give the visible data "0123456789\n" and the cursor (0,2).
C10_InsertDataCells ==
    /\ \A cursor \in Buf2Cursors, data \in NewlineFreeData :
           cursor.y + ((cursor.x + Len(data)) \div visible_buf.width)
               <= visible_buf.height - 1
           => StoredCellByCell(Buf2Self, cursor, data,
                               buf2_insert_data(Buf2Self, cursor, data))
    /\ TenBytesInFreshBuffer(
           buf2_insert_data(TerminalBuffer2_new(5, 5), CursorPos(0, 0), TenBytes))

\* three bytes written at (0,0) into a fresh 2x2 buffer
C10_Witness ==
    /\ ~panicked
    /\ calls = 1
    /\ visible_buf.width = 2
    /\ visible_buf.height = 2
    /\ scrollback = <<>>
    /\ buf2_data(Buf2Self).visible = <<98, 98, 98, 10>>
    /\ buf2_cursor = CursorPos(1, 1)

MaxOf(S) == CHOOSE m \in S : \A n \in S : m >= n

\* the columns of row y that a write of n bytes at cursor lands in
WrittenCols(cursor, n, width, y) ==
    {(cursor.x + i) % width :
        i \in {j \in 0..(n - 1) : cursor.y + ((cursor.x + j) \div width) = y}}

\* a row after a write into the columns cols: the flag is kept, the length is
\* the larger of the old length and the last written column + 1, a cell
\* outside cols keeps its byte, and a cell past the old length is a space
RowOverwritten(old, new, cols) ==
    /\ new.newline = old.newline
    /\ IF cols = {} THEN new = old
       ELSE /\ Len(new.buf) = MaxOf({Len(old.buf), MaxOf(cols) + 1})
            /\ \A c \in 0..(Len(new.buf) - 1) :
                   c \notin cols =>
                       new.buf[c + 1] = IF c < Len(old.buf) THEN old.buf[c + 1] ELSE 32

OverwrittenInPlace(self, cursor, data, r) ==
    /\ ~r.panic
    /\ r.evictions = <<>> =>
           /\ r.self.scrollback = self.scrollback
           /\ \A y \in 0..(self.visible_buf.height - 1) :
                  /\ RowOverwritten(get_line(self.visible_buf, y),
                                    get_line(r.self.visible_buf, y),
                                    WrittenCols(cursor, Len(data),
                                                self.visible_buf.width, y))
                  /\ \A c \in Len(get_line(self.visible_buf, y).buf)
                                  ..(Len(get_line(r.self.visible_buf, y).buf) - 1) :
                         c \notin WrittenCols(cursor, Len(data),
                                              self.visible_buf.width, y)
                         => y = cursor.y /\ c < cursor.x

\* C11: insert_data overwrites in place and never shifts existing bytes: for
\* a newline-free write that evicts nothing, every cell outside the written
\* cells keeps its byte, except that on the first written row the cells
\* between the old row length and x become spaces; the length of each written
\* row becomes max(old length, last written column + 1); the untouched rows,
\* the newline flags and the scrollback are unchanged.
C11_InsertDataOverwritesInPlace ==
    \A cursor \in Buf2Cursors, data \in NewlineFreeData :
        OverwrittenInPlace(Buf2Self, cursor, data,
                           buf2_insert_data(Buf2Self, cursor, data))

\* "a" written at (0,0) over the first of the bytes "bbb" of a 2x2 buffer
C11_Witness ==
    /\ ~panicked
    /\ calls = 2
    /\ scrollback = <<>>
    /\ visible_buf.first_line_idx = 0
    /\ get_line(visible_buf, 0) = Line(<<97, 98>>, FALSE)
    /\ get_line(visible_buf, 1) = Line(<<98>>, FALSE)
    /\ buf2_cursor = CursorPos(1, 0)

\* the linear view: the scrollback followed by the visible bytes of data()
LinearView(self) == self.scrollback \o buf2_data(self).visible

WrittenRangeHoldsData(data, r) ==
    /\ ~r.panic
    /\ r.response.written_range.start <= r.response.written_range.end
    /\ r.response.written_range.end <= Len(LinearView(r.self))
    /\ SubSeq(LinearView(r.self), r.response.written_range.start + 1,
              r.response.written_range.end) = data

\* C12: for every insert_data call (any cursor inside the window, any data,
\* also data that starts with or holds a newline or that evicts rows), the
\* returned written_range is well-formed (start <= end) in the linear view:
\* the bytes of scrollback ++ visible at its indices are the bytes written.
C12_WrittenRangeLinear ==
    \A cursor \in Buf2Cursors, data \in Buf2DataSet :
        WrittenRangeHoldsData(data, buf2_insert_data(Buf2Self, cursor, data))

IsEmptyRange(r) == r.start >= r.end

EvictionReported(self, r) ==
    /\ ~r.panic
    /\ r.response.visible_to_scrollback[2]
           = Range(Len(self.scrollback), Len(r.self.scrollback))
    /\ SubSeq(r.self.scrollback, 1, Len(self.scrollback)) = self.scrollback
    /\ r.response.visible_to_scrollback[1]
           = Range(0, Len(r.evictions) * self.visible_buf.width)
    /\ (IsEmptyRange(r.response.visible_to_scrollback[1])
            /\ IsEmptyRange(r.response.visible_to_scrollback[2]))
           <=> r.evictions = <<>>

\* C13: for every insert_data call, visible_to_scrollback.1 is
\* old_scrollback_len..new_scrollback_len, the bytes the call appended to the
\* scrollback; visible_to_scrollback.0 is 0..(number of evicted rows * width);
\* and the two ranges are both empty iff the call evicted no row.
C13_EvictionReported ==
    \A cursor \in Buf2Cursors, data \in Buf2DataSet :
        EvictionReported(Buf2Self, buf2_insert_data(Buf2Self, cursor, data))

\* "bbb" written into a fresh window of one row of two cells: the row "bb"
\* has been evicted
C13_Witness ==
    /\ ~panicked
    /\ calls = 1
    /\ visible_buf.width = 2
    /\ visible_buf.height = 1
    /\ scrollback = <<98, 98>>
    /\ get_line(visible_buf, 0) = Line(<<98>>, FALSE)
    /\ buf2_cursor = CursorPos(1, 0)

\* the number of lines of a serialised view: its newlines
LineCount(bytes) == Cardinality({i \in 1..Len(bytes) : bytes[i] = 10})

\* the rows above pos and the cells of its row before pos are as they were
ContentBeforeKept(before, after, pos) ==
    /\ \A y \in 0..(pos.y - 1) :
           get_line(after.visible_buf, y).buf = get_line(before.visible_buf, y).buf
    /\ FirstBytes(get_line(after.visible_buf, pos.y).buf, pos.x)
           = FirstBytes(get_line(before.visible_buf, pos.y).buf, pos.x)

LineCountKept(before, after, pos) ==
    /\ LineCount(buf2_data(after).visible) = LineCount(buf2_data(before).visible)
    /\ ContentBeforeKept(before, after, pos)

\* C14: clear_forwards(pos) keeps the number of visible lines: for every
\* buffer and every pos inside the window, the serialised visible view has
\* as many lines after the call as before it, and the content before pos is
\* kept.
C14_ClearForwardsKeepsLineCount ==
    \A pos \in Buf2Cursors :
        LineCountKept(Buf2Self, buf2_clear_forwards(Buf2Self, pos), pos)

\* the bytes of a view that are not newlines
RECURSIVE NonNewlineBytes(_)
NonNewlineBytes(bytes) ==
    IF bytes = <<>> THEN <<>>
    ELSE (IF bytes[1] = 10 THEN <<>> ELSE <<bytes[1]>>)
         \o NonNewlineBytes(SubSeq(bytes, 2, Len(bytes)))

Reflowed(self, width, height, r) ==
    /\ ~r.panic
    /\ r.response.changed
    /\ NonNewlineBytes(LinearView(r.self)) = NonNewlineBytes(LinearView(self))
    /\ r.response.new_cursor_pos.x < width
    /\ r.response.new_cursor_pos.y < height

\* C15: set_win_size(w, h, cursor) with dimensions other than the current
\* ones, for every buffer and every cursor inside the window (also one whose
\* x is past the stored length of its row), completes and returns changed =
\* true; the non-newline bytes of scrollback ++ visible are the same as
\* before; new_cursor_pos lies inside the new grid.
C15_SetWinSizeReflows ==
    \A width \in 1..MaxWidth, height \in 1..MaxHeight, cursor \in Buf2Cursors :
        (width # visible_buf.width \/ height # visible_buf.height)
        => Reflowed(Buf2Self, width, height,
                    set_win_size(Buf2Self, width, height, cursor))

\* the serialisation of the rows as the visible view is described: every row
\* before the last non-empty one gives its bytes and a newline iff its flag
\* is set, it is shorter than the width or the next row is empty; the last
\* non-empty row gives its bytes; one newline ends a view that is not empty
NonEmptyRows(lines) == {i \in 1..Len(lines) : Len(lines[i].buf) > 0}

RowSerialisation(lines, width) ==
    IF NonEmptyRows(lines) = {} THEN <<>>
    ELSE LET last == MaxOf(NonEmptyRows(lines))
             row(i) == lines[i].buf
                       \o (IF lines[i].newline \/ Len(lines[i].buf) < width
                              \/ Len(lines[i + 1].buf) = 0
                           THEN <<10>> ELSE <<>>)
         IN  ConcatIdx(row, 1, last - 1) \o lines[last].buf \o <<10>>

\* C20: data().visible is the row serialisation: every row before the last
\* non-empty row gives its stored bytes followed by one newline iff its flag
\* is set, or it is shorter than the width, or the next row is empty; the
\* last non-empty row gives its bytes; the rows after it give nothing; the
\* result is empty or ends with exactly one appended newline.
C20_VisibleIsRowSerialisation ==
    /\ buf2_data(Buf2Self).visible
           = RowSerialisation(get_all_lines(visible_buf), visible_buf.width)
    /\ buf2_data(Buf2Self).scrollback = scrollback

\* a row that ends in a newline flag above a full row and an empty row
C20_Witness ==
    /\ ~panicked
    /\ visible_buf.width = 2
    /\ visible_buf.height = 2
    /\ get_line(visible_buf, 0) = Line(<<97>>, TRUE)
    /\ get_line(visible_buf, 1) = Line(<<97>>, FALSE)
    /\ buf2_data(Buf2Self).visible = <<97, 10, 97, 10>>

\* The invariants of the data model in full: TagsContiguous, and exactly one
\* tag is open-ended
TrackerInvariants(ts) ==
    /\ TagsContiguous(ts)
    /\ Cardinality({i \in 1..Len(ts) : ts[i].end = usize_MAX}) = 1

\* the linear indices the tags are compared at
FtIndices == 0..(MaxIndex + 1) \cup {usize_MAX - 1}

InRange(p, r) == r.start <= p /\ p < r.end

RangePushed(before, cursor, r, res) ==
    /\ ~res.panic
    /\ \A p \in FtIndices :
           FormatAt(res.tags, p) = IF InRange(p, r) THEN cursor
                                   ELSE FormatAt(before, p)
    /\ Cardinality({i \in 1..Len(res.tags) : TagRange(res.tags[i]) = r}) = 1
    /\ \A i \in 1..Len(res.tags) : res.tags[i].start # res.tags[i].end

\* C16: for a tracker that meets the invariants and any non-empty range r,
\* after push_range(cursor, r) every index inside r has the colour and bold
\* of the cursor, every index outside r has those it had before, exactly one
\* tag has the range r, and no zero-width tag remains.
C16_PushRangeOverwrites ==
    (~panicked /\ TrackerInvariants(color_info)) =>
        \A r \in FtRanges, cursor \in FtFormats :
            r.start < r.end =>
                RangePushed(color_info, cursor, r,
                            push_range(color_info, cursor[1], cursor[2], r))

\* a red bold range pushed into the middle of the initial tag splits it in two
C16_Witness ==
    /\ ~panicked
    /\ color_info = <<FormatTag(0, 1, "Default", FALSE),
                      FormatTag(1, 2, "Red", TRUE),
                      FormatTag(2, usize_MAX, "Default", FALSE)>>
    /\ RangePushed(FormatTracker_new, <<"Red", TRUE>>, Range(1, 2),
                   [tags |-> color_info, panic |-> FALSE])

RangeLen(r) == r.end - r.start

\* the tags that lie entirely inside r
TagsInside(ts, r) ==
    {i \in 1..Len(ts) : r.start <= ts[i].start /\ ts[i].end <= r.end}

RangeDeleted(before, r, res) ==
    /\ ~res.panic
    /\ ~res.overflow
    /\ \A p \in 0..(MaxIndex + 1) :
           FormatAt(res.tags, p) = IF p < r.start THEN FormatAt(before, p)
                                   ELSE FormatAt(before, p + RangeLen(r))
    /\ Len(res.tags) = Len(before) - Cardinality(TagsInside(before, r))
    /\ res.tags # <<>>
    /\ res.tags[Len(res.tags)].end = usize_MAX

\* C17: for a tracker that meets the invariants and any range r with
\* r.start <= r.end < sentinel, after delete_range(r) every index p < r.start
\* keeps its colour and bold, every index p >= r.start has those that index
\* p + len(r) had before, the tags that lay entirely inside r are gone, and
\* the last tag still ends at the sentinel.
C17_DeleteRangeShiftsLeft ==
    (~panicked /\ TrackerInvariants(color_info)) =>
        \A r \in FtRanges :
            r.end < usize_MAX =>
                RangeDeleted(color_info, r, delete_range(color_info, r))

\* the tracker holds a red bold tag 1..2 and deleting 1..2 removes it, and
\* the open-ended tag moves left to start at 1
C17_Witness ==
    /\ ~panicked
    /\ color_info = <<FormatTag(0, 1, "Default", FALSE),
                      FormatTag(1, 2, "Red", TRUE),
                      FormatTag(2, usize_MAX, "Default", FALSE)>>
    /\ delete_range(color_info, Range(1, 2)).tags =
           <<FormatTag(0, 1, "Default", FALSE),
             FormatTag(1, usize_MAX, "Default", FALSE)>>

\* the tags that hold the index p
TagsHolding(ts, p) == {i \in 1..Len(ts) : ts[i].start <= p /\ p < ts[i].end}

RangeAdjusted(before, r, res) ==
    /\ ~res.overflow
    /\ \A p \in 0..(MaxIndex + 1) :
           FormatAt(res.tags, p) =
               IF p < r.start THEN FormatAt(before, p)
               ELSE IF p >= r.end THEN FormatAt(before, p - RangeLen(r))
               ELSE FormatAt(before, r.start)
    /\ Len(before) \in TagsHolding(before, r.start) => res.tags = before

\* C18: for a tracker that meets the invariants and any range r, after
\* push_range_adjustment(r) every index p < r.start keeps its colour and
\* bold, every index p >= r.end has those that index p - len(r) had before,
\* the indices of r take those of the tag that held r.start (that tag is
\* extended, not shifted), and a range that starts inside the final
\* open-ended tag changes nothing.
C18_PushRangeAdjustmentShiftsRight ==
    (~panicked /\ TrackerInvariants(color_info)) =>
        \A r \in FtRanges :
            RangeAdjusted(color_info, r, push_range_adjustment(color_info, r))

\* the scrollback lengths the tags are split at: a Vec is never usize::MAX long
FtSplits == 0..(MaxIndex + 1) \cup {usize_MAX - 1}

\* the tag list l is not empty, starts at a, ends at b and has no gap
ContiguousFromTo(l, a, b) ==
    /\ Len(l) >= 1
    /\ l[1].start = a
    /\ l[Len(l)].end = b
    /\ \A i \in 1..(Len(l) - 1) : l[i].end = l[i + 1].start

SplitKeepsFormats(ts, s, res) ==
    /\ IF s = 0 THEN res.scrollback = <<>>
       ELSE ContiguousFromTo(res.scrollback, 0, s)
    /\ ContiguousFromTo(res.visible, 0, usize_MAX)
    /\ \A p \in FtIndices :
           FormatAt(ts, p) = IF p < s THEN FormatAt(res.scrollback, p)
                             ELSE FormatAt(res.visible, p - s)

\* C19: for any tag list that meets the tracker invariants and any split s,
\* split_format_data_for_scrollback returns a scrollback list that is empty
\* when s = 0 and otherwise contiguous from 0 to exactly s, and a visible list
\* that is contiguous, starts at 0 and ends at the sentinel; every index p
\* has in the scrollback list (p < s) or at p - s in the visible list
\* (p >= s) the colour and bold it had in the original list.
C19_SplitForScrollback ==
    (~panicked /\ TrackerInvariants(color_info)) =>
        \A s \in FtSplits :
            SplitKeepsFormats(color_info, s,
                              split_format_data_for_scrollback(color_info, s))

\* a red bold tag 0..2 straddles the split at 1 and is cut in two
C19_Witness ==
    /\ ~panicked
    /\ color_info = <<FormatTag(0, 2, "Red", TRUE),
                      FormatTag(2, usize_MAX, "Default", FALSE)>>
    /\ split_format_data_for_scrollback(color_info, 1) =
           [scrollback |-> <<FormatTag(0, 1, "Red", TRUE)>>,
            visible |-> <<FormatTag(0, 1, "Red", TRUE),
                          FormatTag(1, usize_MAX, "Default", FALSE)>>]

\* the rows of the window other than those in ys are as they were, with
\* their newline flags, and so is the scrollback
OtherRowsKept(before, after, ys) ==
    /\ after.visible_buf.width = before.visible_buf.width
    /\ after.visible_buf.height = before.visible_buf.height
    /\ \A y \in (0..(before.visible_buf.height - 1)) \ ys :
           get_line(after.visible_buf, y) = get_line(before.visible_buf, y)
    /\ after.scrollback = before.scrollback

\* row pos.y is cut to min(pos.x, old length) bytes
RowTruncated(before, after, pos) ==
    get_line(after.visible_buf, pos.y).buf =
        FirstBytes(get_line(before.visible_buf, pos.y).buf, pos.x)

LineClearedForwards(before, after, pos) ==
    /\ RowTruncated(before, after, pos)
    /\ OtherRowsKept(before, after, {pos.y})

ClearedForwards(before, after, pos) ==
    /\ RowTruncated(before, after, pos)
    /\ \A y \in (pos.y + 1)..(before.visible_buf.height - 1) :
           get_line(after.visible_buf, y).buf = <<>>
    /\ OtherRowsKept(before, after, pos.y..(before.visible_buf.height - 1))

\* C21: clear_line_forwards((x, y)) with y < height cuts row y to
\* min(x, old length) bytes and changes no other row and not the scrollback;
\* clear_forwards((x, y)) does the same to row y, empties every row below y
\* and leaves the rows above y and the scrollback as they were.
C21_ClearForwardsFrame ==
    \A pos \in Buf2Cursors :
        /\ LineClearedForwards(Buf2Self, buf2_clear_line_forwards(Buf2Self, pos), pos)
        /\ ClearedForwards(Buf2Self, buf2_clear_forwards(Buf2Self, pos), pos)

\* two rows with content and a scrollback: clearing from the middle of the
\* top row cuts it to one byte and empties the row below
C21_Witness ==
    /\ ~panicked
    /\ visible_buf.height = 2
    /\ scrollback # <<>>
    /\ Len(get_line(visible_buf, 0).buf) = 2
    /\ Len(get_line(visible_buf, 1).buf) >= 1
    /\ Len(get_line(buf2_clear_line_forwards(Buf2Self, CursorPos(1, 0)).visible_buf, 0).buf) = 1
    /\ get_line(buf2_clear_forwards(Buf2Self, CursorPos(1, 0)).visible_buf, 1).buf = <<>>

\* buffers four cells wide, filled by one insert_data into a fresh buffer
WideBuffers ==
    {buf2_insert_data(TerminalBuffer2_new(4, 2), CursorPos(0, 0), data).self :
        data \in {<<48, 49, 50>>, <<48, 49, 50, 51, 52>>,
                  <<48, 49, 50, 51, 52, 53, 54, 55, 56>>}}

\* the buffers the row operations are applied to: the buffer of the state,
\* and beside the freshly built one the wide buffers
Buf2Samples == IF calls = 0 THEN {Buf2Self} \cup WideBuffers ELSE {Buf2Self}

\* the cursors inside the window of self
Buf2CursorsOf(self) ==
    {CursorPos(x, y) : x \in 0..(self.visible_buf.width - 1),
                       y \in 0..(self.visible_buf.height - 1)}

\* the cursors on a row of self, the column one past the last included
RowCursors(self) ==
    {CursorPos(x, y) : x \in 0..self.visible_buf.width,
                       y \in 0..(self.visible_buf.height - 1)}

RowCounts == 0..(MaxCount + 1)

\* the k bytes from column x are gone from the row and the bytes after them
\* moved left
BytesRemoved(old, new, x, k) ==
    /\ Len(new.buf) = Len(old.buf) - k
    /\ \A i \in 1..Len(new.buf) :
           new.buf[i] = IF i <= x THEN old.buf[i] ELSE old.buf[i + k]

DeletedForwards(before, after, pos, n) ==
    LET old == get_line(before.visible_buf, pos.y)
        new == get_line(after.visible_buf, pos.y)
    IN  IF pos.x <= Len(old.buf)
        THEN /\ BytesRemoved(old, new, pos.x,
                             IF n < Len(old.buf) - pos.x THEN n
                             ELSE Len(old.buf) - pos.x)
             /\ OtherRowsKept(before, after, {pos.y})
        ELSE after = before

\* C22: delete_forwards((x, y), n) with y < height and x <= length of row y
\* removes exactly min(n, length - x) bytes from column x of row y and moves
\* the rest of the row left; it takes no byte from the row below and leaves
\* the other rows and the scrollback alone; with x past the row length it
\* returns None and changes nothing.
C22_DeleteForwards ==
    \A self \in Buf2Samples :
        \A pos \in RowCursors(self), n \in RowCounts :
            /\ DeletedForwards(self, buf2_delete_forwards(self, pos, n), pos, n)
            /\ pos.x > Len(get_line(self.visible_buf, pos.y).buf) =>
                   buf2_delete_forwards_response(self, pos, n) = None

\* a full top row above a row with content: deleting one byte at column 0
\* moves the second byte left and takes nothing from the row below
C22_Witness ==
    /\ ~panicked
    /\ visible_buf.width = 2
    /\ visible_buf.height = 2
    /\ get_line(visible_buf, 0).buf = <<97, 98>>
    /\ get_line(visible_buf, 1).buf = <<98>>
    /\ get_line(buf2_delete_forwards(Buf2Self, CursorPos(0, 0), 1).visible_buf, 0).buf
           = <<98>>

\* k spaces stand at columns x..x+k of the row, the bytes that were at
\* columns >= x moved right by k, and the row is min(old length + k, width)
\* long
SpacesPlaced(old, new, width, x, k) ==
    /\ Len(new.buf) = (IF Len(old.buf) + k < width THEN Len(old.buf) + k ELSE width)
    /\ \A c \in 0..(Len(new.buf) - 1) :
           new.buf[c + 1] = IF c < x THEN old.buf[c + 1]
                            ELSE IF c < x + k THEN 32
                            ELSE old.buf[c - k + 1]

SpacesInserted(before, after, pos, n) ==
    LET width == before.visible_buf.width
    IN  IF pos.y >= before.visible_buf.height THEN after = before
        ELSE pos.x <= Len(get_line(before.visible_buf, pos.y).buf) =>
                /\ SpacesPlaced(get_line(before.visible_buf, pos.y),
                                get_line(after.visible_buf, pos.y), width, pos.x,
                                IF n < width - pos.x THEN n ELSE width - pos.x)
                /\ OtherRowsKept(before, after, {pos.y})

\* the cursors on and just below the rows of self
RowCursorsBelow(self) ==
    {CursorPos(x, y) : x \in 0..self.visible_buf.width,
                       y \in 0..self.visible_buf.height}

\* C23: insert_spaces((x, y), n) with y < height and x <= length of row y
\* places k = min(n, width - x) spaces at columns x..x+k of row y, moves the
\* bytes that were at columns >= x right by k and drops those that would pass
\* the width, sets the row length to min(old length + k, width), changes no
\* other row, and returns the cursor it was given; with y >= height nothing
\* changes.
C23_InsertSpaces ==
    \A self \in Buf2Samples :
        \A pos \in RowCursorsBelow(self), n \in RowCounts :
            /\ SpacesInserted(self, buf2_insert_spaces(self, pos, n), pos, n)
            /\ buf2_insert_spaces_response(self, pos, n).new_cursor_pos = pos

\* one byte in a row two cells wide above a row with content: a space
\* inserted at column 0 moves the byte right and leaves the row below alone
C23_Witness ==
    /\ ~panicked
    /\ visible_buf.width = 2
    /\ visible_buf.height = 2
    /\ get_line(visible_buf, 0).buf = <<97>>
    /\ get_line(visible_buf, 1).buf # <<>>
    /\ get_line(buf2_insert_spaces(Buf2Self, CursorPos(0, 0), 1).visible_buf, 0).buf
           = <<32, 97>>

\* buffers four rows high, filled by one insert_data into a fresh buffer;
\* the longest data evicts a row, so that the ring is rotated
TallBuffers ==
    {buf2_insert_data(TerminalBuffer2_new(2, 4), CursorPos(0, 0), data).self :
        data \in {<<48, 10, 49, 50, 51>>, <<48, 49, 50, 51, 52, 53, 54>>,
                  <<48, 49, 50, 10, 52, 53, 54, 55, 56>>}}

Buf2TallSamples == IF calls = 0 THEN {Buf2Self} \cup TallBuffers ELSE {Buf2Self}

LinesInserted(before, after, y, n) ==
    LET height == before.visible_buf.height
    IN  /\ OtherRowsKept(before, after, y..(height - 1))
        /\ \A i \in y..(height - 1) :
               get_line(after.visible_buf, i) =
                   IF i < y + n THEN Line_clear
                   ELSE get_line(before.visible_buf, i - n)

\* C24: insert_lines((x, y), n) with n >= 1 and y < height leaves the rows
\* above y as they were, makes the rows y..min(y + n, height) - 1 empty with
\* the newline flag cleared, puts each old row i >= y with i + n < height at
\* row i + n with its bytes, length and newline flag, and drops the old rows
\* with i + n >= height without appending them to the scrollback.
C24_InsertLines ==
    \A self \in Buf2TallSamples :
        \A pos \in Buf2CursorsOf(self), n \in 1..(MaxCount + 1) :
            LinesInserted(self, buf2_insert_lines(self, pos, n), pos.y, n)

\* a row that ends in a newline above a row with content: one line inserted
\* at the top moves the first row down with its flag and drops the second
C24_Witness ==
    /\ ~panicked
    /\ visible_buf.height = 2
    /\ get_line(visible_buf, 0) = Line(<<97>>, TRUE)
    /\ get_line(visible_buf, 1).buf = <<98>>
    /\ scrollback # <<>>
    /\ get_line(buf2_insert_lines(Buf2Self, CursorPos(0, 0), 1).visible_buf, 1)
           = Line(<<97>>, TRUE)
    /\ buf2_insert_lines(Buf2Self, CursorPos(0, 0), 1).scrollback = scrollback

\* the texts of a row or column parameter of at least 1, the empty text
\* standing for the default
CursorParamTexts == {<<>>, <<49>>, <<50>>, <<48, 50>>, <<49, 50>>}

CursorParamValue(text) == IF text = <<>> THEN 1 ELSE DecVal(text)

\* what a new parser makes of one call with the bytes seq
Parsed(seq) == AnsiParser_push(AnsiParser_new, seq)

\* the parser emitted exactly ops, did not panic and is back between sequences
EmitsExactly(res, ops) ==
    ~res.panic /\ res.output = ops /\ res.inner = InnerEmpty

\* CSI r ; c H, CSI r H and CSI c G as the parser reads them
CursorPosParsed ==
    /\ \A r \in CursorParamTexts, c \in CursorParamTexts :
           EmitsExactly(Parsed(<<27, 91>> \o r \o <<59>> \o c \o <<72>>),
                        <<Op("SetCursorPos", Some(CursorParamValue(c)),
                             Some(CursorParamValue(r)), <<>>, "")>>)
    /\ \A r \in CursorParamTexts :
           EmitsExactly(Parsed(<<27, 91>> \o r \o <<72>>),
                        <<Op("SetCursorPos", Some(1),
                             Some(CursorParamValue(r)), <<>>, "")>>)
    /\ \A c \in CursorParamTexts :
           EmitsExactly(Parsed(<<27, 91>> \o c \o <<71>>),
                        <<Op("SetCursorPos", Some(CursorParamValue(c)),
                             None, <<>>, "")>>)

\* the ops CSI r ; c H and CSI c G parse to, each with the cursor it asks
\* for: x and y counted from 0, y = None where the row is to be kept
CursorPosOps ==
    {[segment |-> Parsed(<<27, 91>> \o r \o <<59>> \o c \o <<72>>).output[1],
      x |-> CursorParamValue(c) - 1, y |-> Some(CursorParamValue(r) - 1)] :
        r \in CursorParamTexts, c \in CursorParamTexts}
    \cup
    {[segment |-> Parsed(<<27, 91>> \o c \o <<71>>).output[1],
      x |-> CursorParamValue(c) - 1, y |-> None] : c \in CursorParamTexts}

\* the emulator's arm for such an op puts the cursor there
CursorPosSet(o) ==
    EmuSetCursorPosOp(o.segment) =>
        /\ cursor_state'.pos = CursorPos(o.x, unwrap_or(o.y, cursor_state.pos.y))
        /\ ~panicked'

(* C25: for CSI r ; c H with decimal parameters r >= 1 and c >= 1, each     *)
(* 1 when missing or empty, the parser emits exactly one                   *)
(* SetCursorPos {y: r, x: c} (row first, column second) and the emulator    *)
(* then sets cursor.y = r - 1 and cursor.x = c - 1; for CSI c G it sets     *)
(* cursor.x = c - 1 and keeps cursor.y.                                     *)
C25_SetCursorPosOneBased ==
    /\ []CursorPosParsed
    /\ [][\A o \in CursorPosOps : CursorPosSet(o)]_vars

\* CSI 2 ; 2 H was the first segment read: the cursor stands at (1, 1)
C25_Witness ==
    /\ ~panicked
    /\ steps = 1
    /\ terminal_buffer = TerminalBuffer_new
    /\ Parsed(<<27, 91, 50, 59, 50, 72>>).output
           = <<Op("SetCursorPos", Some(2), Some(2), <<>>, "")>>
    /\ cursor_state.pos = CursorPos(1, 1)

\* the texts of one SGR parameter: empty, 0, 1, 31, 91 and 5
SgrPartTexts == {<<>>, <<48>>, <<49>>, <<51, 49>>, <<57, 49>>, <<53>>}

\* the parameter lists of one and of two parts
SgrPartLists ==
    {<<a>> : a \in SgrPartTexts} \cup {<<a, b>> : a \in SgrPartTexts, b \in SgrPartTexts}

\* the parameter bytes of a list of parts: the parts with ';' between them
RECURSIVE JoinParts(_)
JoinParts(parts) ==
    IF Len(parts) = 1 THEN parts[1]
    ELSE parts[1] \o <<59>> \o JoinParts(Tail(parts))

\* the code a part stands for, the empty part for 0
SgrPartValue(text) == IF text = <<>> THEN 0 ELSE DecVal(text)

OneSgrPerPart(parts) ==
    EmitsExactly(AnsiParser_push(parser, <<27, 91>> \o JoinParts(parts) \o <<109>>),
                 [i \in 1..Len(parts) |-> from_usize(SgrPartValue(parts[i]))])

\* C26: for a CSI sequence ended by m whose parameter bytes split on ';'
\* into k parts, each empty or decimal digits, the parser emits exactly one
\* Sgr op per part, in order, an empty part meaning the code 0; an empty
\* parameter list yields the single op Sgr(Reset); 0 maps to Reset, 1 to
\* Bold, 30..37 and 90..97 to the foreground colours and any other n to
\* Unknown(n).
C26_SgrOnePerPart ==
    /\ (~in_push /\ parser = InnerEmpty) =>
           \A parts \in SgrPartLists : OneSgrPerPart(parts)
    /\ from_usize(0).kind = "Reset"
    /\ from_usize(1).kind = "Bold"
    /\ \A n \in (30..37) \cup (90..97) :
           from_usize(n).kind \notin {"Reset", "Bold", "Unknown"}
    /\ \A n \in (2..29) \cup (38..89) \cup (98..110) :
           from_usize(n) = Op("Sgr", Some(n), None, <<>>, "Unknown")

\* s is the first Len(s) elements of t
IsPrefix(s, t) == Len(s) <= Len(t) /\ s = SubSeq(t, 1, Len(s))

\* C27: for every input and every sequence of partial-write results of the
\* endpoint (each call taking between 0 and the remaining number of bytes,
\* a non-zero number again and again) TerminalEmulator::write terminates,
\* and the bytes the endpoint took, in call order, are exactly the encoded
\* payload: none dropped, duplicated or out of order.
C27_WriteDeliversPayload ==
    /\ [](IsPrefix(write_call.accepted, write_call.payload))
    /\ [](write_call.pc = "returned" => write_call.accepted = write_call.payload)
    /\ (write_call.pc # "returned") ~> (write_call.pc = "returned")

\* the second write call, of a cursor key, has returned after the fd took
\* its three bytes
C27_Witness ==
    /\ steps = 2
    /\ write_call.pc = "returned"
    /\ Len(write_call.payload) = 3
    /\ write_call.accepted = write_call.payload

----------------------------------------------------------------------------
(* ReplayControl::next walks the flattened recording *)

\* the atomic actions of a list of items: one per byte of a Write, one per
\* SetWinSize
RECURSIVE Flattened(_)
Flattened(items) ==
    IF items = <<>> THEN <<>>
    ELSE (IF Head(items).type = "Write"
          THEN [i \in 1..Len(Head(items).data) |->
                    RecordingAction_Write(Head(items).data[i])]
          ELSE <<RecordingAction_SetWinSize(Head(items).width, Head(items).height)>>)
         \o Flattened(Tail(items))

PlayedOf(nexts, len) == IF nexts < len THEN nexts ELSE len

\* after k calls of next the first min(k, len) atomic actions have been
\* performed, in order, and current_pos is min(k, len)
ReplayFollowsRecording ==
    /\ ReplayControl_len(replay_control) = Len(Flattened(replay_control.recording.items))
    /\ current_pos(replay_control) =
           PlayedOf(replay_hist.nexts, ReplayControl_len(replay_control))
    /\ replay_hist.performed =
           SubSeq(Flattened(replay_control.recording.items), 1,
                  PlayedOf(replay_hist.nexts, ReplayControl_len(replay_control)))
    /\ replay_hist.nexts > ReplayControl_len(replay_control)
           => replay_hist.returned = ControlAction_None

\* a call of next at the end queues nothing and leaves the position
ReplayEndStays ==
    (/\ ReplayNext
     /\ current_pos(replay_control) = ReplayControl_len(replay_control))
        => /\ current_pos(replay_control)' = current_pos(replay_control)
           /\ replay_control'.tx = replay_control.tx
           /\ replay_hist'.returned = ControlAction_None

\* C28: for any recording, also one with empty Write items, the k-th call
\* of ReplayControl::next with 1 <= k <= len() performs the k-th atomic
\* action of the flattened recording (queues that byte, or returns that
\* Resize) and leaves current_pos() = k; current_pos() never decreases and
\* never exceeds len(); at current_pos() = len(), next returns None, queues
\* nothing and leaves the position unchanged.
C28_ReplayNextInOrder ==
    /\ []ReplayFollowsRecording
    /\ [](current_pos(replay_control) <= ReplayControl_len(replay_control))
    /\ [][current_pos(replay_control)' >= current_pos(replay_control)]_vars
    /\ [][ReplayEndStays]_vars

\* a recording with an empty Write item played to its end and past it
C28_Witness ==
    /\ replay_control.recording.items =
           <<RecordingItem_Write(<<>>), RecordingItem_SetWinSize(2, 1),
             RecordingItem_Write(<<98, 99>>)>>
    /\ replay_hist.nexts = 5
    /\ current_pos(replay_control) = 3
    /\ replay_hist.performed =
           <<RecordingAction_SetWinSize(2, 1), RecordingAction_Write(98),
             RecordingAction_Write(99)>>
    /\ replay_hist.returned = ControlAction_None

----------------------------------------------------------------------------
(* The items of a recording in progress *)

NoAdjacentWrites(items) ==
    \A i \in 1..(Len(items) - 1) :
        ~(items[i].type = "Write" /\ items[i + 1].type = "Write")

SetWinSizeItems(items) == {i \in 1..Len(items) : items[i].type = "SetWinSize"}

SetWinSizeCalls(log) == {i \in 1..Len(log) : log[i].action = "SetWinSize"}

\* C29: while a recording is active, after any sequence of Recorder::write
\* and Recorder::set_win_size calls, the items hold no two adjacent Write
\* items, one SetWinSize item for each set_win_size call, and flatten to the
\* written bytes and the resizes in the order of the calls.
C29_ItemsFollowCalls ==
    upgrade(recorder) # None =>
        /\ NoAdjacentWrites(upgrade(recorder)[1].recording.items)
        /\ Cardinality(SetWinSizeItems(upgrade(recorder)[1].recording.items))
               = Cardinality(SetWinSizeCalls(recorder_hist.log))
        /\ Flattened(upgrade(recorder)[1].recording.items) = recorder_hist.log

\* two writes merged into one item, a resize, and an empty write after it
C29_Witness ==
    /\ upgrade(recorder) # None
    /\ upgrade(recorder)[1].recording.items =
           <<RecordingItem_Write(<<97, 97>>), RecordingItem_SetWinSize(3, 2),
             RecordingItem_Write(<<>>)>>
    /\ Len(recorder_hist.log) = 3

----------------------------------------------------------------------------
(* One recording in progress per Recorder *)

\* start_recording with a strong handle alive, not failed
StartedExisting ==
    /\ RecStartRecording
    /\ upgrade(recorder) # None
    /\ recorder_hist'.last # "Err"

\* start_recording with no strong handle alive, not failed
StartedNew ==
    /\ RecStartRecording
    /\ upgrade(recorder) = None
    /\ recorder_hist'.last # "Err"

\* the recording in progress is handed out again as it is
ExistingKept ==
    /\ recorder_hist'.last = "Existing"
    /\ upgrade(recorder') # None
    /\ upgrade(recorder')[1].id = upgrade(recorder)[1].id
    /\ upgrade(recorder')[1].recording = upgrade(recorder)[1].recording
    /\ upgrade(recorder')[1].path = upgrade(recorder)[1].path

\* a recording with nothing in it is handed out
NewEmpty ==
    /\ recorder_hist'.last = "New"
    /\ upgrade(recorder') # None
    /\ upgrade(recorder')[1].recording = Recording_new

\* write and set_win_size with no strong handle alive change nothing
InactiveIgnored ==
    ((RecWrite \/ RecSetWinSize) /\ upgrade(recorder) = None)
        => UNCHANGED <<recorder, recording_dir>>

\* C30 as stated: every start_recording with a strong handle alive returns
\* Existing for the same recording, and every start_recording with none
\* alive returns New with an empty recording.
C30_StartAlwaysAnswers ==
    /\ [](Cardinality(recorder.arcs) <= 1)
    /\ [][(RecStartRecording /\ upgrade(recorder) # None) => ExistingKept]_vars
    /\ [][InactiveIgnored]_vars
    /\ [][(RecStartRecording /\ upgrade(recorder) = None) => NewEmpty]_vars

\* C30: at most one recording is in progress per Recorder. A
\* start_recording that does not fail on create_dir_all returns, with a
\* strong handle alive, Existing for the same recording, its items,
\* initial_state and file unchanged, and with no strong handle alive, New
\* with empty items and empty initial_state; a start_recording that fails
\* on create_dir_all changes nothing; while no strong handle is alive,
\* write and set_win_size change nothing.
C30_OneRecordingInProgress ==
    /\ [](Cardinality(recorder.arcs) <= 1)
    /\ [][StartedExisting => ExistingKept]_vars
    /\ [][InactiveIgnored]_vars
    /\ [][StartedNew => NewEmpty]_vars
    /\ [][(RecStartRecording /\ recorder_hist'.last = "Err")
              => UNCHANGED <<recorder, recording_dir>>]_vars

\* a second recording, empty, started after the handles of a first one with
\* items and a snapshot were dropped and its file saved
C30_Witness ==
    /\ recorder_hist.last = "New"
    /\ upgrade(recorder) # None
    /\ upgrade(recorder)[1].id = 2
    /\ upgrade(recorder)[1].recording = Recording_new
    /\ upgrade(recorder)[1].path = 1
    /\ recording_dir = {0}

----------------------------------------------------------------------------
(* The flush of a recording whose handles are dropped while the emulator   *)
(* thread writes to it                                                     *)

FlushedIds == {flushed[i].id : i \in 1..Len(flushed)}

\* every recording started is alive or has been flushed, never both, and
\* none was flushed twice or under a running call that holds it
FlushedOnceWhenReleased ==
    /\ \A i, j \in 1..Len(flushed) : flushed[i].id = flushed[j].id => i = j
    /\ \A a \in recorder.arcs : a.id \notin FlushedIds /\ a.strong >= 1
    /\ \A id \in 1..(recorder.next_id - 1) :
           id \in FlushedIds \/ \E a \in recorder.arcs : a.id = id
    /\ recorder_call.pc # "returned" => recorder_call.id \notin FlushedIds

\* the file written loads back as the recording, which holds every call
\* whose upgrade succeeded
FlushedComplete ==
    \A i \in 1..Len(flushed) :
        /\ Recording_load(flushed[i].file) = Some(flushed[i].recording)
        /\ Flattened(flushed[i].recording.items) = flushed[i].log

\* what was flushed stays as it was
FlushedKept ==
    /\ Len(flushed') >= Len(flushed)
    /\ \A i \in 1..Len(flushed) : flushed'[i] = flushed[i]
    /\ recording_dir \subseteq recording_dir'

----------------------------------------------------------------------------
(* Snapshots load back *)

CsiSnapshotStates ==
    {[state |-> st, fin |-> 0, params |-> p, intermediates |-> i] :
        st \in {"Params", "Intermediates", "Invalid", "InvalidFinished"},
        p \in {<<>>, <<49>>, <<49, 59, 63>>}, i \in {<<>>, <<32>>, <<32, 47>>}}
    \cup {[state |-> "Finished", fin |-> f, params |-> p, intermediates |-> i] :
        f \in {64, 109, 126},
        p \in {<<>>, <<49>>, <<49, 59, 63>>}, i \in {<<>>, <<32>>, <<32, 47>>}}

ParserSnapshotStates ==
    {InnerEmpty, InnerEscape, parser} \cup {Inner("Csi", csi) : csi \in CsiSnapshotStates}

\* what a read of a byte never written may give
UninitReads == {0, 255}

ParserLoadsBack ==
    \A x \in ParserSnapshotStates :
        AnsiParser_from_snapshot(AnsiParser_snapshot(x)) = Some(x)

\* the buffer as new made it, where every byte of every row is still as
\* alloc handed it out: snapshot reads it once, the comparison once more
BufferLoadsBack ==
    calls = 0 =>
        \A at_snapshot, at_eq \in UninitReads :
            TerminalBuffer2_from_snapshot(
                TerminalBuffer2_snapshot(TerminalBuffer2_struct(Buf2Self, at_snapshot)))
            = Some(TerminalBuffer2_struct(Buf2Self, at_eq))

----------------------------------------------------------------------------
(* What ReplayIo::read hands over *)

\* the bytes of the Write actions among the actions performed
RECURSIVE QueuedBytes(_)
QueuedBytes(performed) ==
    IF performed = <<>> THEN <<>>
    ELSE (IF Head(performed).action = "Write" THEN <<Head(performed).b>> ELSE <<>>)
         \o QueuedBytes(Tail(performed))

\* C33: ReplayIo::read loses no bytes: for any read buffer of 1 byte or
\* more and any number of bytes queued by ReplayControl::next, the bytes the
\* successive reads returned, followed by the bytes still queued, are the
\* bytes queued, in order.
C33_ReadLosesNothing ==
    replay_hist.read \o replay_control.tx = QueuedBytes(replay_hist.performed)

----------------------------------------------------------------------------
(* The order in which the replayed emulator is given the recording *)

\* C34: during replay the emulator observes the recorded events in recorded
\* order, also when one update advances several actions: every Write byte
\* before a SetWinSize item has been read and applied before that resize is
\* applied, and every Write byte after it is applied after.
C34_ReplayInRecordedOrder ==
    IsPrefix(replay_gui.applied, Flattened(replay_control.recording.items))

----------------------------------------------------------------------------
(* The scrollback only grows, until clear_all *)

\* clear_all leaves nothing but the dimensions
ClearedAll(before, after) ==
    /\ after.scrollback = <<>>
    /\ \A y \in 0..(before.visible_buf.height - 1) :
           get_line(after.visible_buf, y) = Line_clear
    /\ after.visible_buf.width = before.visible_buf.width
    /\ after.visible_buf.height = before.visible_buf.height

\* the calls that edit rows leave the scrollback alone
EditsKeepScrollback ==
    \A pos \in Buf2Cursors :
        /\ buf2_clear_forwards(Buf2Self, pos).scrollback = scrollback
        /\ buf2_clear_line_forwards(Buf2Self, pos).scrollback = scrollback
        /\ \A n \in Buf2Counts :
               /\ buf2_delete_forwards(Buf2Self, pos, n).scrollback = scrollback
               /\ ~(overflow_checks /\ buf2_insert_spaces_overflows(Buf2Self, pos))
                      => buf2_insert_spaces(Buf2Self, pos, n).scrollback = scrollback
               /\ ~(overflow_checks /\ buf2_insert_lines_overflows(Buf2Self, pos, n))
                      => buf2_insert_lines(Buf2Self, pos, n).scrollback = scrollback

\* insert_data and set_win_size only append to it
WritesAppendToScrollback ==
    \A pos \in Buf2Cursors :
        /\ \A data \in Buf2DataSet :
               ~buf2_insert_data(Buf2Self, pos, data).panic
                   => IsPrefix(scrollback,
                               buf2_insert_data(Buf2Self, pos, data).self.scrollback)
        /\ \A width \in 1..MaxWidth, height \in 1..MaxHeight :
               ~set_win_size(Buf2Self, width, height, pos).panic
                   => IsPrefix(scrollback,
                               set_win_size(Buf2Self, width, height, pos).self.scrollback)

\* a call made either appends to the scrollback or is clear_all
ScrollbackStep ==
    \/ IsPrefix(scrollback, scrollback')
    \/ Buf2ClearAll /\ ClearedAll(Buf2Self, TerminalBuffer2(visible_buf', scrollback'))

\* C35: across any sequence of buffer operations the scrollback changes
\* only by appending, except for clear_all, which empties the scrollback and
\* every row and leaves width and height; insert_lines, insert_spaces,
\* clear_forwards, clear_line_forwards and delete_forwards never modify the
\* scrollback, and set_win_size only appends to it.
C35_ScrollbackAppendOnly ==
    /\ [](~panicked => EditsKeepScrollback)
    /\ [](~panicked => WritesAppendToScrollback)
    /\ [](~panicked => ClearedAll(Buf2Self, buf2_clear_all(Buf2Self)))
    /\ [][ScrollbackStep]_vars

\* a scrollback of two rows evicted one after the other, above a row with
\* content, which clear_all empties
C35_Witness ==
    /\ ~panicked
    /\ Len(scrollback) >= 3
    /\ \E y \in 0..(visible_buf.height - 1) : get_line(visible_buf, y).buf # <<>>
    /\ buf2_clear_all(Buf2Self).scrollback = <<>>
    /\ calls >= 2


\* what the top row gives to the serialised visible view: before the last row
\* with content, its bytes and the line break serialize puts after them; as
\* the last row with content (or with every row empty), its bytes, with or
\* without the newline that ends the view
TopRowContributions(lines, width) ==
    IF last_line_with_content(lines) > 1
    THEN {lines[1].buf
              \o (IF lines[1].newline \/ Len(lines[1].buf) < width
                     \/ Len(lines[2].buf) = 0
                  THEN <<10>> ELSE <<>>)}
    ELSE {lines[1].buf, lines[1].buf \o <<10>>}

\* the bytes one eviction has appended to the scrollback
EvictedBytes(before, after) ==
    SubSeq(after.scrollback, Len(before.scrollback) + 1, Len(after.scrollback))

\* asked of a top row that holds written bytes
EvictionKeepsLinearView(before, after) ==
    Len(get_line(before.visible_buf, 0).buf) > 0
    => EvictedBytes(before, after)
           \in TopRowContributions(get_all_lines(before.visible_buf),
                                   before.visible_buf.width)

EvictionsKeepLinearView(evictions) ==
    \A k \in 1..Len(evictions) :
        EvictionKeepsLinearView(evictions[k].before, evictions[k].after)

\* C36: for every buffer state, the bytes an eviction appends to the
\* scrollback for the top row are exactly the bytes, line break included,
\* that row gave to the serialised visible view just before the eviction, so
\* that scrollback ++ visible reads the same before and after the row moves.
C36_EvictionKeepsLinearView ==
    /\ \A cursor \in Buf2Cursors, data \in Buf2DataSet :
           EvictionsKeepLinearView(buf2_insert_data(Buf2Self, cursor, data).evictions)
    /\ \A width \in 1..MaxWidth, height \in 1..MaxHeight, cursor \in Buf2Cursors :
           EvictionsKeepLinearView(set_win_size(Buf2Self, width, height, cursor).evictions)


\* cursors whose row is below the window
RowsBelowWindow ==
    {CursorPos(x, y) : x \in 0..visible_buf.width,
                       y \in visible_buf.height..(2 * visible_buf.height)}

\* C37: clear_line_forwards, clear_forwards and delete_forwards called with a
\* cursor row y >= height return None and leave the bytes, length and newline
\* flag of every row and the scrollback unchanged; they do not act on row
\* y mod height.
C37_RowBelowWindowUntouched ==
    \A cursor_pos \in RowsBelowWindow :
        /\ buf2_clear_line_forwards(Buf2Self, cursor_pos) = Buf2Self
        /\ buf2_clear_forwards(Buf2Self, cursor_pos) = Buf2Self
        /\ \A num_chars \in Buf2Counts :
               /\ buf2_delete_forwards(Buf2Self, cursor_pos, num_chars) = Buf2Self
               /\ buf2_delete_forwards_response(Buf2Self, cursor_pos, num_chars) = None


----------------------------------------------------------------------------
(* TerminalBuffer2::insert_data as a loop that may not end: one iteration   *)
(* at a time, stopped when data is empty or when the loop comes back to a   *)
(* state (buffer, x, y, data) it has been in, from where it repeats itself. *)

InsertLoop(self, x, y, data) == [self |-> self, x |-> x, y |-> y, data |-> data]

\* `if y > max_y_idx { self.push_line_to_scrollback(); ...; y = max_y_idx; }`
insert_data_iteration_wrapped(self, x, y, data) ==
    IF y > self.visible_buf.height - 1
    THEN InsertLoop(push_line_to_scrollback(self), x, self.visible_buf.height - 1, data)
    ELSE InsertLoop(self, x, y, data)

\* the loop body from `line.insert_data(data, x)` on
insert_data_iteration_line(st, response) ==
    insert_data_iteration_wrapped(
        TerminalBuffer2(set_line(st.self.visible_buf, st.y, response.line),
                        st.self.scrollback),
        IF response.new_x_pos >= st.self.visible_buf.width THEN 0 ELSE response.new_x_pos,
        IF response.new_x_pos >= st.self.visible_buf.width THEN st.y + 1 ELSE st.y,
        SubSeq(st.data, response.consumed + 1, Len(st.data)))

insert_data_iteration(st) ==
    insert_data_iteration_line(st,
        Line_insert_data(get_line(st.self.visible_buf, st.y),
                         st.self.visible_buf.width, st.data, st.x))

InsertRun(status, self, new_cursor_pos) ==
    [status |-> status, self |-> self, new_cursor_pos |-> new_cursor_pos]

RECURSIVE insert_data_run_loop(_, _)
insert_data_run_loop(st, seen) ==
    IF st.data = <<>> THEN InsertRun("consumed", st.self, CursorPos(st.x, st.y))
    ELSE IF st \in seen THEN InsertRun("loops", st.self, CursorPos(st.x, st.y))
    ELSE insert_data_run_loop(insert_data_iteration(st), seen \cup {st})

\* "consumed": the loop ended with every byte of data taken; "panicked": the
\* assert on y failed; "loops": the loop never ends
insert_data_run(self, cursor_pos, data) ==
    IF cursor_pos.y > self.visible_buf.height - 1
    THEN InsertRun("panicked", self, cursor_pos)
    ELSE insert_data_run_loop(InsertLoop(self, cursor_pos.x, cursor_pos.y, data), {})

\* TerminalBuffer2::set_win_size: the slices it hands to insert_data, row by
\* row; advance tells whether pos takes the cursor the call returns
SetWinSizeInsert(data, advance) == [data |-> data, advance |-> advance]

set_win_size_row_inserts(line, is_cursor_row, cursor_pos) ==
    (IF is_cursor_row
     THEN <<SetWinSizeInsert(SubSeq(line.buf, 1, cursor_pos.x), FALSE),
            SetWinSizeInsert(SubSeq(line.buf, cursor_pos.x + 1, Len(line.buf)), TRUE)>>
     ELSE <<SetWinSizeInsert(line.buf, TRUE)>>)
    \o (IF line.newline THEN <<SetWinSizeInsert(<<10>>, TRUE)>> ELSE <<>>)

RECURSIVE set_win_size_inserts(_, _, _)
set_win_size_inserts(old_lines, i, cursor_pos) ==
    IF i > Len(old_lines) THEN <<>>
    ELSE set_win_size_row_inserts(old_lines[i], i - 1 = cursor_pos.y, cursor_pos)
         \o set_win_size_inserts(old_lines, i + 1, cursor_pos)

RECURSIVE set_win_size_run_loop(_, _, _, _)
set_win_size_run_inserted(r, pos, inserts, k) ==
    IF r.status # "consumed" THEN r.status
    ELSE set_win_size_run_loop(r.self,
             IF inserts[k].advance THEN r.new_cursor_pos ELSE pos, inserts, k + 1)

set_win_size_run_loop(self, pos, inserts, k) ==
    IF k > Len(inserts) THEN "returned"
    ELSE set_win_size_run_inserted(insert_data_run(self, pos, inserts[k].data),
                                   pos, inserts, k)

\* "returned", or what stopped the first insert_data that did not return
set_win_size_run(self, width, height, cursor_pos) ==
    IF self.visible_buf.width = width /\ self.visible_buf.height = height
    THEN "returned"
    ELSE IF cursor_pos.x > Len(get_line(self.visible_buf, cursor_pos.y).buf)
    THEN "panicked"
    ELSE set_win_size_run_loop(
             TerminalBuffer2(VisibleBuffer_new(width, height), self.scrollback),
             CursorPos(0, 0),
             set_win_size_inserts(get_all_lines(self.visible_buf), 1, cursor_pos), 1)

\* the widths the front-end can compute, 0 among them; the heights from 1,
\* as with height 0 VisibleBuffer::new asks the allocator for no bytes
FrontEndWidths == 0..MaxWidth
FrontEndHeights == 1..MaxHeight

CsiFed ==
    IF Len(fed) >= 2 /\ fed[1] = 27 /\ fed[2] = 91
    THEN SubSeq(fed, 3, Len(fed)) ELSE <<>>

CsiAfter(k) == CsiRun(CsiParser_new, SubSeq(CsiFed, 1, k)).parser

U8 == 0..255

\* the classification of one byte by an open CsiParser p, q the parser after
CsiByteClassified(p, b, q) ==
    /\ (p.state = "Params" /\ b \in 48..63)
           => q = [p EXCEPT !.params = Append(p.params, b)]
    /\ (p.state = "Params" /\ b \in 32..47)
           => q = [p EXCEPT !.intermediates = Append(p.intermediates, b),
                            !.state = "Intermediates"]
    /\ (p.state = "Intermediates" /\ b \in 48..63)
           => q = [p EXCEPT !.state = "Invalid"]
    /\ (p.state = "Intermediates" /\ b \in 32..47)
           => q = [p EXCEPT !.intermediates = Append(p.intermediates, b)]
    /\ (p.state \in {"Params", "Intermediates"} /\ b \in 64..126)
           => q = [p EXCEPT !.state = "Finished", !.fin = b]
    /\ (p.state \in {"Params", "Intermediates"} /\ b \notin 32..126)
           => q = [p EXCEPT !.state = "Invalid"]

CsiBuffersInRange(p) ==
    /\ \A i \in 1..Len(p.params) : p.params[i] \in 48..63
    /\ \A i \in 1..Len(p.intermediates) : p.intermediates[i] \in 32..47

\* C39: in Params a byte 0x30..=0x3f is appended to params, 0x20..=0x2f is
\* appended to intermediates and moves to Intermediates, 0x40..=0x7e gives
\* Finished(b), any other byte Invalid; in Intermediates a parameter byte
\* gives Invalid, an intermediate byte is appended, a terminator gives
\* Finished(b), any other byte Invalid. So params holds only 0x30..=0x3f,
\* intermediates only 0x20..=0x2f, and no parameter byte is accepted once
\* an intermediate has been.
C39_CsiBytesClassified ==
    /\ \A k \in 0..Len(CsiFed) :
           /\ CsiBuffersInRange(CsiAfter(k))
           /\ \A b \in U8 :
                  CsiByteClassified(CsiAfter(k), b, CsiParser_push(CsiAfter(k), b))
    /\ \A k \in 0..(Len(CsiFed) - 1) :
           CsiAfter(k).intermediates # <<>>
               => CsiAfter(k + 1).params = CsiAfter(k).params

\* ESC [ and then a space and a digit: the digit after the intermediate is
\* not taken as a parameter and the sequence is invalid
C39_Witness ==
    /\ fed = <<27, 91, 32, 49>>
    /\ CsiAfter(1).state = "Intermediates"
    /\ CsiAfter(2) = [state |-> "Invalid", fin |-> 0, params |-> <<>>,
                      intermediates |-> <<32>>]


\* C40: InsertLines(0), which the parser emits for CSI 0 L, is harmless:
\* insert_lines(pos, 0) completes without unsigned underflow of
\* num_lines - 1 and leaves the bytes, length and newline flag of every row
\* and the scrollback unchanged.
C40_InsertNoLinesHarmless ==
    \A cursor \in Buf2Cursors :
        /\ ~buf2_insert_lines_overflows(Buf2Self, cursor, 0)
        /\ buf2_insert_lines(Buf2Self, cursor, 0) = Buf2Self

====
